---- MODULE Spec2Model ----
(***************************************************************************)
(* Model of the attotime library: durations counted in attoseconds (i128), *)
(* day counts (i32), the civil date-time construction and decomposition of *)
(* the uniform and the leap-second time scales, and the constant-offset    *)
(* conversion between terrestrial scales.                                  *)
(*                                                                         *)
(* TLC's integers are 32 bits wide, which is exactly the width of a        *)
(* `Days` count.  The i128 count of a `Duration` is kept as a wide         *)
(* integer: a sign and a little-endian sequence of base-1000 limbs.        *)
(***************************************************************************)
EXTENDS Integers, Sequences, FiniteSets, TLC

(***************************************************************************)
(* Wide integers (the i128 `count` of a Duration).                         *)
(***************************************************************************)
Base == 1000

\* the largest element of a non-empty set of integers
Max(S) == CHOOSE x \in S : \A y \in S : y <= x

\* a limb sequence without its leading (most significant) zero limbs
MagNorm(m) ==
    LET nz == {i \in 1..Len(m) : m[i] # 0}
    IN  IF nz = {} THEN <<>> ELSE SubSeq(m, 1, Max(nz))

\* a natural number below 2^31 (so below Base^4) as a limb sequence
MagOfNat(n) ==
    MagNorm(<<n % Base, (n \div Base) % Base,
              (n \div (Base * Base)) % Base, n \div (Base * Base * Base)>>)

Limb(m, i) == IF i <= Len(m) THEN m[i] ELSE 0

\* -1, 0, 1 as a < b, a = b, a > b: the most significant differing limb decides
MagCmp(a, b) ==
    IF Len(a) < Len(b) THEN -1
    ELSE IF Len(a) > Len(b) THEN 1
    ELSE LET diff == {i \in 1..Len(a) : a[i] # b[i]}
         IN  IF diff = {} THEN 0
             ELSE IF a[Max(diff)] < b[Max(diff)] THEN -1 ELSE 1

\* a + b: limb i receives a carry when some lower limb j generates one and
\* every limb between j and i propagates it
MagAdd(a, b) ==
    LET n        == IF Len(a) >= Len(b) THEN Len(a) ELSE Len(b)
        s(i)     == Limb(a, i) + Limb(b, i)
        carry(i) == \E j \in 1..(i - 1) :
                       /\ s(j) >= Base
                       /\ \A k \in (j + 1)..(i - 1) : s(k) = Base - 1
    IN  MagNorm([i \in 1..(n + 1) |->
                    (s(i) + (IF carry(i) THEN 1 ELSE 0)) % Base])

\* a - b for a >= b: limb i lends when some lower limb j borrows and every
\* limb between j and i passes the borrow on
MagSub(a, b) ==
    LET s(i)      == a[i] - Limb(b, i)
        borrow(i) == \E j \in 1..(i - 1) :
                        /\ s(j) < 0
                        /\ \A k \in (j + 1)..(i - 1) : s(k) = 0
    IN  MagNorm([i \in 1..Len(a) |->
                    (s(i) - (IF borrow(i) THEN 1 ELSE 0) + Base) % Base])

\* a * k for one limb k (0 <= k < Base): each limb product splits into a low
\* limb, staying in place, and a high limb, moving one place up
MagMulSmall(a, k) ==
    MagAdd([i \in 1..Len(a) |-> (a[i] * k) % Base],
           <<0>> \o [i \in 1..Len(a) |-> (a[i] * k) \div Base])

\* a * b, one limb of b at a time
RECURSIVE MagMulBy(_, _)
MagMulBy(a, b) ==
    IF b = <<>> THEN <<>>
    ELSE LET rest == MagMulBy(a, Tail(b))
         IN  IF rest = <<>> THEN MagMulSmall(a, Head(b))
             ELSE MagAdd(MagMulSmall(a, Head(b)), <<0>> \o rest)

\* the shorter factor is the multiplier
MagMul(a, b) == IF Len(a) < Len(b) THEN MagMulBy(b, a) ELSE MagMulBy(a, b)

\* the largest digit d in lo .. hi-1 with d * b <= r, given lo * b <= r < hi * b
RECURSIVE MagDigit(_, _, _, _)
MagDigit(r, b, lo, hi) ==
    IF hi - lo <= 1 THEN lo
    ELSE LET mid == (lo + hi) \div 2
         IN  IF MagCmp(MagMulSmall(b, mid), r) <= 0
             THEN MagDigit(r, b, mid, hi)
             ELSE MagDigit(r, b, lo, mid)

RECURSIVE MagToNat(_)
MagToNat(m) == IF m = <<>> THEN 0 ELSE Head(m) + Base * MagToNat(Tail(m))

\* the digit r \div b for b <= r < Base * b: the leading limbs of r and b bound
\* it from both sides, and the search settles it
MagQuotDigit(r, b) ==
    LET k    == IF Len(b) >= 2 THEN Len(b) - 1 ELSE 1
        rtop == MagToNat(SubSeq(r, k, Len(r)))
        btop == MagToNat(SubSeq(b, k, Len(b)))
        hi   == rtop \div btop
    IN  MagDigit(r, b, rtop \div (btop + 1), (IF hi > Base - 1 THEN Base - 1 ELSE hi) + 1)

\* quotient and remainder of the number made of limbs i .. Len(a) of a, by
\* b # 0 (long division): fewer limbs than b has are a remainder already, and
\* each further limb of a gives one quotient digit
RECURSIVE MagDivModFrom(_, _, _)
MagDivModFrom(a, b, i) ==
    IF i > Len(a) - (Len(b) - 1)
    THEN [q |-> <<>>, r |-> MagNorm(SubSeq(a, i, Len(a)))]
    ELSE LET prev == MagDivModFrom(a, b, i + 1)
             Digit(r1, d) ==
                 [q |-> MagNorm(<<d>> \o prev.q),
                  r |-> IF d = 0 THEN r1 ELSE MagSub(r1, MagMulSmall(b, d))]
             Down(r1) ==
                 Digit(r1, IF MagCmp(r1, b) < 0 THEN 0 ELSE MagQuotDigit(r1, b))
         IN  IF prev.r = <<>> /\ a[i] = 0
             THEN [q |-> IF prev.q = <<>> THEN <<>> ELSE <<0>> \o prev.q,
                   r |-> <<>>]
             ELSE Down(<<a[i]>> \o prev.r)

MagDivMod(a, b) == MagDivModFrom(a, b, 1)

IMake(neg, mag) == [neg |-> neg /\ mag # <<>>, mag |-> mag]

IZero == [neg |-> FALSE, mag |-> <<>>]

\* a 32-bit integer as a wide integer (i32 -> i128, `.into()`)
IFromInt(n) ==
    IF n >= 0 THEN IMake(FALSE, MagOfNat(n))
    ELSE IMake(TRUE, MagAdd(MagOfNat(-(n + 1)), <<1>>))

INeg(x) == IMake(~x.neg, x.mag)

IAdd(x, y) ==
    IF x.neg = y.neg THEN IMake(x.neg, MagAdd(x.mag, y.mag))
    ELSE IF MagCmp(x.mag, y.mag) >= 0 THEN IMake(x.neg, MagSub(x.mag, y.mag))
    ELSE IMake(y.neg, MagSub(y.mag, x.mag))

ISub(x, y) == IAdd(x, INeg(y))

IMul(x, y) == IMake(x.neg # y.neg, MagMul(x.mag, y.mag))

ICmp(x, y) ==
    IF x.neg /\ ~y.neg THEN -1
    ELSE IF ~x.neg /\ y.neg THEN 1
    ELSE IF x.neg THEN MagCmp(y.mag, x.mag)
    ELSE MagCmp(x.mag, y.mag)

ILt(x, y) == ICmp(x, y) < 0
ILe(x, y) == ICmp(x, y) <= 0
IGe(x, y) == ICmp(x, y) >= 0

\* Rust's `/` and `%` on integers: the quotient truncates toward zero and the
\* remainder takes the sign of the dividend.
IDiv(x, y) == IMake(x.neg # y.neg, MagDivMod(x.mag, y.mag).q)
IRem(x, y) == IMake(x.neg, MagDivMod(x.mag, y.mag).r)

\* num_integer::div_floor and div_ceil
IDivFloor(x, y) ==
    LET Round(qr) ==
            IF x.neg = y.neg \/ qr.r = <<>> THEN IMake(x.neg # y.neg, qr.q)
            ELSE IMake(TRUE, MagAdd(qr.q, <<1>>))
    IN  Round(MagDivMod(x.mag, y.mag))

IDivCeil(x, y) ==
    LET Round(qr) ==
            IF x.neg # y.neg \/ qr.r = <<>> THEN IMake(x.neg # y.neg, qr.q)
            ELSE IMake(FALSE, MagAdd(qr.q, <<1>>))
    IN  Round(MagDivMod(x.mag, y.mag))



I32Max == 2147483647
I32Min == -I32Max - 1

IFitsI32(x) == IGe(x, IFromInt(I32Min)) /\ ILe(x, IFromInt(I32Max))
IFitsU8(x) == ~x.neg /\ ILe(x, IFromInt(255))

IToInt(x) ==
    IF x.mag = <<>> THEN 0
    ELSE IF x.neg THEN -MagToNat(MagSub(x.mag, <<1>>)) - 1
    ELSE MagToNat(x.mag)

\* the range of the i128 count, 2^127 - 1 = 170141183460469231731687303715884105727
\* down to -2^127, and the number 2^128 of its values
I128Max ==
    [neg |-> FALSE,
     mag |-> <<727, 105, 884, 715, 303, 687, 731, 231, 469, 460, 183, 141, 170>>]
I128Min ==
    [neg |-> TRUE,
     mag |-> <<728, 105, 884, 715, 303, 687, 731, 231, 469, 460, 183, 141, 170>>]
I128Span ==
    [neg |-> FALSE,
     mag |-> <<456, 211, 768, 431, 607, 374, 463, 463, 938, 920, 366, 282, 340>>]

IFitsI128(x) == IGe(x, I128Min) /\ ILe(x, I128Max)

\* x modulo 2^128 into the i128 range, for x at most 2^128 outside of it
IWrapI128(x) ==
    IF ILt(I128Max, x) THEN ISub(x, I128Span)
    ELSE IF ILt(x, I128Min) THEN IAdd(x, I128Span)
    ELSE x

(***************************************************************************)
(* Unit ratios, in attoseconds.                                            *)
(***************************************************************************)
Milli == [neg |-> FALSE, mag |-> <<0, 0, 0, 0, 0, 1>>]
Second == [neg |-> FALSE, mag |-> <<0, 0, 0, 0, 0, 0, 1>>]
SecondsPerMinute == [neg |-> FALSE, mag |-> <<0, 0, 0, 0, 0, 0, 60>>]
SecondsPerHour == [neg |-> FALSE, mag |-> <<0, 0, 0, 0, 0, 0, 600, 3>>]
SecondsPerDay == [neg |-> FALSE, mag |-> <<0, 0, 0, 0, 0, 0, 400, 86>>]

(***************************************************************************)
(* Duration: the value is its i128 attosecond count.                       *)
(***************************************************************************)
DurationMilliseconds(count) == IMul(count, Milli)
DurationSeconds(count) == IMul(count, Second)
DurationMinutes(count) == IMul(count, SecondsPerMinute)
\* hours counted with the ratio of minutes: what a wrong unit ratio would make
\* of every constructed instant
DurationHoursAsMinutes(count) == IMul(count, SecondsPerMinute)

DurationHours(count) == IMul(count, SecondsPerHour)
DurationDays(count) == IMul(count, SecondsPerDay)

Floor(d, unit) == IMul(IDivFloor(d, unit), unit)

Truncate(d, unit) == IMul(IDiv(d, unit), unit)

\* a factoring built on floor instead of truncate, whose remainder is never
\* negative
FactorOutFloor(d, unit) ==
    LET Parts(factored) ==
            [factored |-> IDiv(factored, unit), remainder |-> ISub(d, factored)]
    IN  Parts(Floor(d, unit))

FactorOut(d, unit) ==
    LET Parts(factored) ==
            [factored |-> IDiv(factored, unit), remainder |-> ISub(d, factored)]
    IN  Parts(Truncate(d, unit))

\* the derived `+` and `-` of Duration are those of i128: out of range they
\* panic in a build with overflow checks and wrap in one without (`wrap`);
\* ok = FALSE is the panic
DurationChecked(count, wrap) ==
    IF IFitsI128(count) THEN [ok |-> TRUE, v |-> count, ovf |-> FALSE]
    ELSE IF wrap THEN [ok |-> TRUE, v |-> IWrapI128(count), ovf |-> TRUE]
    ELSE [ok |-> FALSE, v |-> IZero, ovf |-> TRUE]

DurationAdd(a, b, wrap) == DurationChecked(IAdd(a, b), wrap)

DurationSub(a, b, wrap) == DurationChecked(ISub(a, b), wrap)

(***************************************************************************)
(* Days: an i32 count.  `+` and `-` on it overflow: the operation panics   *)
(* in a build with overflow checks and wraps in one without.  `wrap` says  *)
(* which build runs; ok = FALSE is the panic.                              *)
(***************************************************************************)
AddOverflows(a, b) == (b > 0 /\ a > I32Max - b) \/ (b < 0 /\ a < I32Min - b)
SubOverflows(a, b) == (b > 0 /\ a < I32Min + b) \/ (b < 0 /\ a > I32Max + b)

WrapAdd(a, b) ==
    IF b > 0 THEN I32Min + (a - (I32Max - b) - 1)
    ELSE I32Max - ((I32Min - b) - a - 1)

WrapSub(a, b) ==
    IF b > 0 THEN I32Max - ((I32Min + b) - a - 1)
    ELSE I32Min + (a - (I32Max + b) - 1)

DaysAdd(a, b, wrap) ==
    IF ~AddOverflows(a, b) THEN [ok |-> TRUE, v |-> a + b, ovf |-> FALSE]
    ELSE IF wrap THEN [ok |-> TRUE, v |-> WrapAdd(a, b), ovf |-> TRUE]
    ELSE [ok |-> FALSE, v |-> 0, ovf |-> TRUE]

DaysSub(a, b, wrap) ==
    IF ~SubOverflows(a, b) THEN [ok |-> TRUE, v |-> a - b, ovf |-> FALSE]
    ELSE IF wrap THEN [ok |-> TRUE, v |-> WrapSub(a, b), ovf |-> TRUE]
    ELSE [ok |-> FALSE, v |-> 0, ovf |-> TRUE]

DaysIntoDuration(count) == DurationDays(IFromInt(count))

(***************************************************************************)
(* The time scales: epoch (days since 1970-01-01) and offset from TAI.     *)
(***************************************************************************)
TaiEpoch == -4383
UtcEpoch == 730
TtEpoch == 2557
TcgEpoch == 2557
TcbEpoch == 2557
TdbEpoch == 2557
GpstEpoch == 3657
GlonasstEpoch == 9496
QzsstEpoch == 10825
BdtEpoch == 13149

UniformScales == {"TT", "TCG", "TCB", "TDB", "GPST", "QZSST", "BDT", "TAI"}
LeapSecondScales == {"UTC", "GLONASST"}
TerrestrialScales == {"TAI", "UTC", "TT", "GPST", "BDT", "QZSST", "GLONASST"}

Epoch(scale) ==
    CASE scale = "TAI" -> TaiEpoch
      [] scale = "UTC" -> UtcEpoch
      [] scale = "TT" -> TtEpoch
      [] scale = "TCG" -> TcgEpoch
      [] scale = "TCB" -> TcbEpoch
      [] scale = "TDB" -> TdbEpoch
      [] scale = "GPST" -> GpstEpoch
      [] scale = "GLONASST" -> GlonasstEpoch
      [] scale = "QZSST" -> QzsstEpoch
      [] scale = "BDT" -> BdtEpoch

TaiOffset(scale) ==
    CASE scale = "TAI" -> IZero
      [] scale = "UTC" -> IZero
      [] scale = "TT" -> DurationMilliseconds(IFromInt(32184))
      [] scale = "GPST" -> DurationSeconds(IFromInt(-19))
      [] scale = "BDT" -> DurationSeconds(IFromInt(-33))
      [] scale = "QZSST" -> DurationSeconds(IFromInt(-19))
      [] scale = "GLONASST" -> DurationHours(IFromInt(3))

(***************************************************************************)
(* The static leap-second provider.  Each table is the `match` of the      *)
(* source, arm by arm and in its order: <<n, open, is_leap_second,         *)
(* leap_seconds>> is the arm `n.. =>` when open and `n =>` otherwise; the  *)
(* first arm that matches decides, and `_ => (false, 9)` is the last.      *)
(***************************************************************************)
DateArms == <<
    <<17167, TRUE, FALSE, 37>>, <<17166, FALSE, TRUE, 36>>,
    <<16617, TRUE, FALSE, 36>>, <<16616, FALSE, TRUE, 35>>,
    <<15522, TRUE, FALSE, 35>>, <<15521, FALSE, TRUE, 34>>,
    <<14245, TRUE, FALSE, 34>>, <<14244, FALSE, TRUE, 33>>,
    <<13149, TRUE, FALSE, 33>>, <<13148, FALSE, TRUE, 32>>,
    <<10592, TRUE, FALSE, 32>>, <<10591, FALSE, TRUE, 31>>,
    <<10043, TRUE, FALSE, 31>>, <<10042, FALSE, TRUE, 30>>,
    <<9496, TRUE, FALSE, 30>>, <<9495, FALSE, TRUE, 29>>,
    <<8947, TRUE, FALSE, 29>>, <<8946, FALSE, TRUE, 28>>,
    <<8582, TRUE, FALSE, 28>>, <<8581, FALSE, TRUE, 27>>,
    <<8217, TRUE, FALSE, 27>>, <<8216, FALSE, TRUE, 26>>,
    <<7670, TRUE, FALSE, 26>>, <<7669, FALSE, TRUE, 25>>,
    <<7305, TRUE, FALSE, 25>>, <<7304, FALSE, TRUE, 24>>,
    <<6574, TRUE, FALSE, 24>>, <<6573, FALSE, TRUE, 23>>,
    <<5660, TRUE, FALSE, 23>>, <<5659, FALSE, TRUE, 22>>,
    <<4929, TRUE, FALSE, 22>>, <<4928, FALSE, TRUE, 21>>,
    <<4564, TRUE, FALSE, 21>>, <<4563, FALSE, TRUE, 20>>,
    <<4199, TRUE, FALSE, 20>>, <<4198, FALSE, TRUE, 19>>,
    <<3652, TRUE, FALSE, 19>>, <<3651, FALSE, TRUE, 18>>,
    <<3287, TRUE, FALSE, 18>>, <<3286, FALSE, TRUE, 17>>,
    <<2922, TRUE, FALSE, 17>>, <<2921, FALSE, TRUE, 16>>,
    <<2557, TRUE, FALSE, 16>>, <<2556, FALSE, TRUE, 15>>,
    <<2191, TRUE, FALSE, 15>>, <<2190, FALSE, TRUE, 14>>,
    <<1826, TRUE, FALSE, 14>>, <<1825, FALSE, TRUE, 13>>,
    <<1461, TRUE, FALSE, 13>>, <<1460, FALSE, TRUE, 12>>,
    <<1096, TRUE, FALSE, 12>>, <<1095, FALSE, TRUE, 11>>,
    <<912, TRUE, FALSE, 11>>, <<911, FALSE, TRUE, 10>>,
    <<730, TRUE, FALSE, 10>>, <<729, FALSE, TRUE, 9>>
    >>

TimeArms == <<
    <<1420156837, TRUE, FALSE, 37>>, <<1420156836, FALSE, TRUE, 36>>,
    <<1372636836, TRUE, FALSE, 36>>, <<1372636835, FALSE, TRUE, 35>>,
    <<1278028835, TRUE, FALSE, 35>>, <<1278028834, FALSE, TRUE, 34>>,
    <<1167696034, TRUE, FALSE, 34>>, <<1167696033, FALSE, TRUE, 33>>,
    <<1073001633, TRUE, FALSE, 33>>, <<1073001632, FALSE, TRUE, 32>>,
    <<852076832, TRUE, FALSE, 32>>, <<852076831, FALSE, TRUE, 31>>,
    <<804643231, TRUE, FALSE, 31>>, <<804643230, FALSE, TRUE, 30>>,
    <<757382430, TRUE, FALSE, 30>>, <<757382429, FALSE, TRUE, 29>>,
    <<709948829, TRUE, FALSE, 29>>, <<709948828, FALSE, TRUE, 28>>,
    <<678412828, TRUE, FALSE, 28>>, <<678412827, FALSE, TRUE, 27>>,
    <<646876827, TRUE, FALSE, 27>>, <<646876826, FALSE, TRUE, 26>>,
    <<599616026, TRUE, FALSE, 26>>, <<599616025, FALSE, TRUE, 25>>,
    <<568080025, TRUE, FALSE, 25>>, <<568080024, FALSE, TRUE, 24>>,
    <<504921624, TRUE, FALSE, 24>>, <<504921623, FALSE, TRUE, 23>>,
    <<425952023, TRUE, FALSE, 23>>, <<425952022, FALSE, TRUE, 22>>,
    <<362793622, TRUE, FALSE, 22>>, <<362793621, FALSE, TRUE, 21>>,
    <<331257621, TRUE, FALSE, 21>>, <<331257620, FALSE, TRUE, 20>>,
    <<299721620, TRUE, FALSE, 20>>, <<299721619, FALSE, TRUE, 19>>,
    <<252460819, TRUE, FALSE, 19>>, <<252460818, FALSE, TRUE, 18>>,
    <<220924818, TRUE, FALSE, 18>>, <<220924817, FALSE, TRUE, 17>>,
    <<189388817, TRUE, FALSE, 17>>, <<189388816, FALSE, TRUE, 16>>,
    <<157852816, TRUE, FALSE, 16>>, <<157852815, FALSE, TRUE, 15>>,
    <<126230415, TRUE, FALSE, 15>>, <<126230414, FALSE, TRUE, 14>>,
    <<94694414, TRUE, FALSE, 14>>, <<94694413, FALSE, TRUE, 13>>,
    <<63158413, TRUE, FALSE, 13>>, <<63158412, FALSE, TRUE, 12>>,
    <<31622412, TRUE, FALSE, 12>>, <<31622411, FALSE, TRUE, 11>>,
    <<15724811, TRUE, FALSE, 11>>, <<15724810, FALSE, TRUE, 10>>,
    <<10, TRUE, FALSE, 10>>, <<9, FALSE, TRUE, 9>>
    >>

\* the first of the arms of `arms` whose indexes are `hit` (those that
\* match), or the final `_` arm when none does
FirstArm(arms, hit) ==
    IF hit = {} THEN [is_leap_second |-> FALSE, leap_seconds |-> 9]
    ELSE LET arm == arms[CHOOSE i \in hit : \A j \in hit : i <= j]
         IN  [is_leap_second |-> arm[3], leap_seconds |-> arm[4]]

\* the date table with the inserted second counted on the leap-second day
\* itself instead of from the day after it
LeapSecondsOnDateEarly(utc_date) ==
    LET days_since_1970_01_01 == utc_date
        Matches(arm) == IF arm[2] THEN days_since_1970_01_01 >= arm[1]
                        ELSE days_since_1970_01_01 = arm[1]
        Counted(ls) ==
            [is_leap_second |-> ls.is_leap_second,
             leap_seconds |-> IF ls.is_leap_second THEN ls.leap_seconds + 1
                              ELSE ls.leap_seconds]
    IN  Counted(FirstArm(DateArms, {i \in 1..Len(DateArms) : Matches(DateArms[i])}))

\* the date table that recognizes no leap-second day
LeapSecondsOnDateNever(utc_date) ==
    LET days_since_1970_01_01 == utc_date
        Matches(arm) == IF arm[2] THEN days_since_1970_01_01 >= arm[1]
                        ELSE days_since_1970_01_01 = arm[1]
        Unrecognized(ls) == [is_leap_second |-> FALSE, leap_seconds |-> ls.leap_seconds]
    IN  Unrecognized(FirstArm(DateArms, {i \in 1..Len(DateArms) : Matches(DateArms[i])}))

LeapSecondsOnDate(utc_date) ==
    LET days_since_1970_01_01 == utc_date
        Matches(arm) == IF arm[2] THEN days_since_1970_01_01 >= arm[1]
                        ELSE days_since_1970_01_01 = arm[1]
    IN  FirstArm(DateArms, {i \in 1..Len(DateArms) : Matches(DateArms[i])})

\* the instant table with the arms `n..` starting one second late (exclusive
\* of n): the first second after an insertion still counts the old total
LeapSecondsAtTimeExclusive(utc_time) ==
    LET Match(seconds_since_1972_01_01) ==
            LET Matches(arm) ==
                    IF arm[2] THEN ILt(IFromInt(arm[1]), seconds_since_1972_01_01)
                    ELSE seconds_since_1972_01_01 = IFromInt(arm[1])
            IN  FirstArm(TimeArms, {i \in 1..Len(TimeArms) : Matches(TimeArms[i])})
    IN  Match(IDiv(utc_time, DurationSeconds(IFromInt(1))))

LeapSecondsAtTime(utc_time) ==
    LET Match(seconds_since_1972_01_01) ==
            LET Matches(arm) ==
                    IF arm[2] THEN IGe(seconds_since_1972_01_01, IFromInt(arm[1]))
                    ELSE seconds_since_1972_01_01 = IFromInt(arm[1])
            IN  FirstArm(TimeArms, {i \in 1..Len(TimeArms) : Matches(TimeArms[i])})
    IN  Match(IDiv(utc_time, DurationSeconds(IFromInt(1))))

(***************************************************************************)
(* Results of the date-time constructors and decompositions.               *)
(***************************************************************************)
\* a failed `try_into` panics in every build; an overflowing `+` or `-` panics
\* in a build with overflow checks
PanicCast == [tag |-> "Panic", ovf |-> FALSE]
PanicOverflow == [tag |-> "Panic", ovf |-> TRUE]

OkTime(t, ovf) == [tag |-> "Ok", t |-> t, ovf |-> ovf]

InvalidTimeOfDay(hour, minute, second) ==
    [tag |-> "InvalidTimeOfDay", hour |-> hour, minute |-> minute, second |-> second]

NonLeapSecondDateTime(date, hour, minute, second) ==
    [tag |-> "NonLeapSecondDateTime", date |-> date, hour |-> hour,
     minute |-> minute, second |-> second]

OkDateTime(date, hour, minute, second, ovf) ==
    [tag |-> "Ok", date |-> date, hour |-> hour, minute |-> minute,
     second |-> second, ovf |-> ovf]

(***************************************************************************)
(* Conversion between terrestrial scales.                                  *)
(***************************************************************************)
\* the conversion that forgets the epoch offset in the branch that adds the
\* scale offset: the conversion back does not undo it
FromTimeScaleLosingEpoch(from, into, time_point, wrap) ==
    LET epoch_offset == DaysIntoDuration(Epoch(from) - Epoch(into))
        Result(time_since_epoch) ==
            IF ~time_since_epoch.ok THEN PanicOverflow
            ELSE OkTime(time_since_epoch.v, time_since_epoch.ovf)
        Shift(from_offset, into_offset) ==
            IF IGe(from_offset, into_offset)
            THEN Result(DurationSub(time_point,
                                    ISub(ISub(from_offset, into_offset), epoch_offset),
                                    wrap))
            ELSE Result(DurationAdd(time_point, ISub(into_offset, from_offset), wrap))
    IN  Shift(TaiOffset(from), TaiOffset(into))

\* the conversion that applies the scale offset with the opposite sign: still
\* undone by the conversion back, but off by twice the offset
FromTimeScaleSwapped(from, into, time_point, wrap) ==
    LET epoch_offset == DaysIntoDuration(Epoch(from) - Epoch(into))
        Shift(from_offset, into_offset) ==
            IF IGe(from_offset, into_offset)
            THEN DurationAdd(time_point, ISub(from_offset, into_offset), wrap)
            ELSE DurationSub(time_point, ISub(into_offset, from_offset), wrap)
        Result(shifted, time_since_epoch) ==
            IF ~time_since_epoch.ok THEN PanicOverflow
            ELSE OkTime(time_since_epoch.v, shifted.ovf \/ time_since_epoch.ovf)
        AddEpoch(shifted) ==
            IF ~shifted.ok THEN PanicOverflow
            ELSE Result(shifted, DurationAdd(shifted.v, epoch_offset, wrap))
    IN  AddEpoch(Shift(TaiOffset(from), TaiOffset(into)))

FromTimeScale(from, into, time_point, wrap) ==
    LET epoch_offset == DaysIntoDuration(Epoch(from) - Epoch(into))
        Shift(from_offset, into_offset) ==
            IF IGe(from_offset, into_offset)
            THEN DurationSub(time_point, ISub(from_offset, into_offset), wrap)
            ELSE DurationAdd(time_point, ISub(into_offset, from_offset), wrap)
        Result(shifted, time_since_epoch) ==
            IF ~time_since_epoch.ok THEN PanicOverflow
            ELSE OkTime(time_since_epoch.v, shifted.ovf \/ time_since_epoch.ovf)
        AddEpoch(shifted) ==
            IF ~shifted.ok THEN PanicOverflow
            ELSE Result(shifted, DurationAdd(shifted.v, epoch_offset, wrap))
    IN  AddEpoch(Shift(TaiOffset(from), TaiOffset(into)))

(***************************************************************************)
(* from_datetime                                                           *)
(***************************************************************************)
\* the uniform construction with the time-of-day check of the leap-second
\* scales, which lets second = 60 through
UniformFromDateTimeLeap(scale, date, hour, minute, second) ==
    IF hour > 23 \/ minute > 59 \/ second > 60
    THEN InvalidTimeOfDay(hour, minute, second)
    ELSE LET days_since_scale_epoch ==
                 ISub(DaysIntoDuration(date), DaysIntoDuration(Epoch(scale)))
             hours == DurationHours(IFromInt(hour))
             minutes == DurationMinutes(IFromInt(minute))
             seconds == DurationSeconds(IFromInt(second))
         IN  OkTime(IAdd(IAdd(IAdd(hours, minutes), seconds), days_since_scale_epoch),
                    FALSE)

\* the uniform construction with the days since the epoch of the scale
\* subtracted as Days, in i32, as the leap-second scales do
UniformFromDateTimeInDays(scale, date, hour, minute, second) ==
    IF hour >= 24 \/ minute >= 60 \/ second >= 60
    THEN InvalidTimeOfDay(hour, minute, second)
    ELSE LET days_since_scale_epoch == DaysSub(date, Epoch(scale), FALSE)
             hours == DurationHours(IFromInt(hour))
             minutes == DurationMinutes(IFromInt(minute))
             seconds == DurationSeconds(IFromInt(second))
         IN  IF ~days_since_scale_epoch.ok THEN PanicOverflow
             ELSE OkTime(IAdd(IAdd(IAdd(hours, minutes), seconds),
                              DaysIntoDuration(days_since_scale_epoch.v)),
                         FALSE)

UniformFromDateTime(scale, date, hour, minute, second) ==
    IF hour >= 24 \/ minute >= 60 \/ second >= 60
    THEN InvalidTimeOfDay(hour, minute, second)
    ELSE LET days_since_scale_epoch ==
                 ISub(DaysIntoDuration(date), DaysIntoDuration(Epoch(scale)))
             hours == DurationHours(IFromInt(hour))
             minutes == DurationMinutes(IFromInt(minute))
             seconds == DurationSeconds(IFromInt(second))
         IN  OkTime(IAdd(IAdd(IAdd(hours, minutes), seconds), days_since_scale_epoch),
                    FALSE)

UtcFromDateTime(date, hour, minute, second, wrap) ==
    IF hour > 23 \/ minute > 59 \/ second > 60
    THEN InvalidTimeOfDay(hour, minute, second)
    ELSE LET ls == LeapSecondsOnDate(date)
         IN  IF second = 60 /\ ~ls.is_leap_second
             THEN NonLeapSecondDateTime(date, hour, minute, second)
             ELSE LET days_since_scale_epoch == DaysSub(date, UtcEpoch, wrap)
                      hours == DurationHours(IFromInt(hour))
                      minutes == DurationMinutes(IFromInt(minute))
                      seconds == DurationSeconds(IFromInt(second))
                  IN  IF ~days_since_scale_epoch.ok THEN PanicOverflow
                      ELSE OkTime(
                             IAdd(IAdd(IAdd(IAdd(hours, minutes), seconds),
                                       DurationSeconds(IFromInt(ls.leap_seconds))),
                                  DaysIntoDuration(days_since_scale_epoch.v)),
                             days_since_scale_epoch.ovf)

\* the construction that looks the leap seconds up on the GLONASST date
\* itself, whatever the hour
GlonassFromDateTimeSameDay(date, hour, minute, second, wrap) ==
    IF hour > 23 \/ minute > 59 \/ second > 60
    THEN InvalidTimeOfDay(hour, minute, second)
    ELSE LET ls == LeapSecondsOnDate(date)
         IN  IF second = 60 /\ ~ls.is_leap_second
             THEN NonLeapSecondDateTime(date, hour, minute, second)
             ELSE LET days_since_scale_epoch == DaysSub(date, GlonasstEpoch, wrap)
                      hours == DurationHours(IFromInt(hour))
                      minutes == DurationMinutes(IFromInt(minute))
                      seconds == DurationSeconds(IFromInt(second))
                  IN  IF ~days_since_scale_epoch.ok THEN PanicOverflow
                      ELSE OkTime(
                             IAdd(IAdd(IAdd(IAdd(hours, minutes), seconds),
                                       DurationSeconds(IFromInt(ls.leap_seconds))),
                                  DaysIntoDuration(days_since_scale_epoch.v)),
                             days_since_scale_epoch.ovf)

GlonassFromDateTime(date, hour, minute, second, wrap) ==
    IF hour > 23 \/ minute > 59 \/ second > 60
    THEN InvalidTimeOfDay(hour, minute, second)
    ELSE LET utc_date == IF hour < 3 THEN DaysSub(date, 1, wrap)
                         ELSE [ok |-> TRUE, v |-> date, ovf |-> FALSE]
         IN  IF ~utc_date.ok THEN PanicOverflow
             ELSE LET ls == LeapSecondsOnDate(utc_date.v)
                  IN  IF second = 60 /\ ~ls.is_leap_second
                      THEN NonLeapSecondDateTime(date, hour, minute, second)
                      ELSE LET days_since_scale_epoch == DaysSub(date, GlonasstEpoch, wrap)
                               hours == DurationHours(IFromInt(hour))
                               minutes == DurationMinutes(IFromInt(minute))
                               seconds == DurationSeconds(IFromInt(second))
                           IN  IF ~days_since_scale_epoch.ok THEN PanicOverflow
                               ELSE OkTime(
                                      IAdd(IAdd(IAdd(IAdd(hours, minutes), seconds),
                                                DurationSeconds(IFromInt(ls.leap_seconds))),
                                           DaysIntoDuration(days_since_scale_epoch.v)),
                                      utc_date.ovf \/ days_since_scale_epoch.ovf)

FromDateTime(scale, date, hour, minute, second, wrap) ==
    CASE scale = "UTC" -> UtcFromDateTime(date, hour, minute, second, wrap)
      [] scale = "GLONASST" -> GlonassFromDateTime(date, hour, minute, second, wrap)
      [] OTHER -> UniformFromDateTime(scale, date, hour, minute, second)

(***************************************************************************)
(* into_datetime                                                           *)
(***************************************************************************)
\* the factoring with the days truncated toward zero rather than floored
FactorDateTimeTruncated(seconds_since_scale_epoch) ==
    LET WithMinutes(factored, h, m) ==
            [days |-> IDiv(factored, SecondsPerDay), hour |-> h.factored,
             minute |-> m.factored,
             second |-> IDiv(Floor(m.remainder, Second), DurationSeconds(IFromInt(1)))]
        WithHours(factored, h) ==
            WithMinutes(factored, h, FactorOut(h.remainder, SecondsPerMinute))
        WithDays(factored) ==
            WithHours(factored,
                      FactorOut(ISub(seconds_since_scale_epoch, factored), SecondsPerHour))
    IN  WithDays(Truncate(seconds_since_scale_epoch, SecondsPerDay))

\* the step-by-step factoring of a time since epoch into days, hours,
\* minutes and seconds, all still i128
FactorDateTime(seconds_since_scale_epoch) ==
    LET WithMinutes(factored, h, m) ==
            [days |-> IDiv(factored, SecondsPerDay), hour |-> h.factored,
             minute |-> m.factored,
             second |-> IDiv(Floor(m.remainder, Second), DurationSeconds(IFromInt(1)))]
        WithHours(factored, h) ==
            WithMinutes(factored, h, FactorOut(h.remainder, SecondsPerMinute))
        WithDays(factored) ==
            WithHours(factored,
                      FactorOut(ISub(seconds_since_scale_epoch, factored), SecondsPerHour))
    IN  WithDays(Floor(seconds_since_scale_epoch, SecondsPerDay))

\* the date from the scale's epoch and the narrowing of the factored parts
UniformDateTime(epoch, f, wrap) ==
    IF ~IFitsI32(f.days) THEN PanicCast
    ELSE LET days_since_universal_epoch == DaysAdd(epoch, IToInt(f.days), wrap)
         IN  IF ~days_since_universal_epoch.ok THEN PanicOverflow
             ELSE IF ~(IFitsU8(f.hour) /\ IFitsU8(f.minute) /\ IFitsU8(f.second))
             THEN PanicCast
             ELSE OkDateTime(days_since_universal_epoch.v, IToInt(f.hour),
                             IToInt(f.minute), IToInt(f.second),
                             days_since_universal_epoch.ovf)

UniformIntoDateTime(scale, t, wrap) == UniformDateTime(Epoch(scale), FactorDateTime(t), wrap)

\* the tail shared by the two leap-second scales: the date from the scale's
\* epoch, and (previous day, 23, 59, 60) inside a leap second
LeapSecondDateTime(epoch, f, is_leap_second, wrap) ==
    IF ~IFitsI32(f.days) THEN PanicCast
    ELSE LET days_since_universal_epoch == DaysAdd(epoch, IToInt(f.days), wrap)
         IN  IF ~days_since_universal_epoch.ok THEN PanicOverflow
             ELSE IF is_leap_second
             THEN LET date == DaysSub(days_since_universal_epoch.v, 1, wrap)
                  IN  IF ~date.ok THEN PanicOverflow
                      ELSE OkDateTime(date.v, 23, 59, 60,
                                      days_since_universal_epoch.ovf \/ date.ovf)
             ELSE IF ~(IFitsU8(f.hour) /\ IFitsU8(f.minute) /\ IFitsU8(f.second))
             THEN PanicCast
             ELSE OkDateTime(days_since_universal_epoch.v, IToInt(f.hour),
                             IToInt(f.minute), IToInt(f.second),
                             days_since_universal_epoch.ovf)

\* the decomposition of a leap-second scale, given what the leap-second
\* provider said of the instant
LeapSecondIntoDateTime(epoch, t, ls, wrap) ==
    LeapSecondDateTime(epoch,
                       FactorDateTime(ISub(t, DurationSeconds(IFromInt(ls.leap_seconds)))),
                       ls.is_leap_second, wrap)

UtcIntoDateTime(t, wrap) == LeapSecondIntoDateTime(UtcEpoch, t, LeapSecondsAtTime(t), wrap)

GlonassIntoDateTime(t, wrap) ==
    LET Result(utc_time, r) ==
            IF r.tag = "Ok" THEN [r EXCEPT !.ovf = r.ovf \/ utc_time.ovf] ELSE r
        Via(utc_time) ==
            IF utc_time.tag = "Panic" THEN PanicOverflow
            ELSE Result(utc_time,
                        LeapSecondIntoDateTime(GlonasstEpoch, t,
                                               LeapSecondsAtTime(utc_time.t), wrap))
    IN  Via(FromTimeScale("GLONASST", "UTC", t, wrap))

IntoDateTime(scale, t, wrap) ==
    CASE scale = "UTC" -> UtcIntoDateTime(t, wrap)
      [] scale = "GLONASST" -> GlonassIntoDateTime(t, wrap)
      [] OTHER -> UniformIntoDateTime(scale, t, wrap)
(***************************************************************************)
(* Duration: the remaining unit ratios and the rounding operations.  An    *)
(* operation returns [ok, v, ovf]: ok = FALSE is the panic of a build with *)
(* overflow checks, ovf = TRUE a wrapped overflow of one without.          *)
(***************************************************************************)
Atto == [neg |-> FALSE, mag |-> <<1>>]
Femto == [neg |-> FALSE, mag |-> <<0, 1>>]
Nano == [neg |-> FALSE, mag |-> <<0, 0, 0, 1>>]

\* ((self.count + unit / 2) / unit) * unit, `/` truncating toward zero; the
\* product is no larger than the sum and cannot overflow
Round(d, unit, wrap) ==
    LET Of(sum) ==
            IF ~sum.ok THEN sum
            ELSE [ok |-> TRUE, v |-> IMul(IDiv(sum.v, unit), unit), ovf |-> sum.ovf]
    IN  Of(DurationAdd(d, IDiv(unit, IFromInt(2)), wrap))

Ceil(d, unit, wrap) == DurationChecked(IMul(IDivCeil(d, unit), unit), wrap)

\* (self.count + other / 2) / other; a zero divisor panics in every build, and
\* so does i128::MIN / -1 (the only quotient out of range)
DivRound(d, other, wrap) ==
    LET Of(sum) ==
            IF ~sum.ok THEN sum
            ELSE IF other = IZero \/ ~IFitsI128(IDiv(sum.v, other))
            THEN [ok |-> FALSE, v |-> IZero, ovf |-> sum.ovf]
            ELSE [ok |-> TRUE, v |-> IDiv(sum.v, other), ovf |-> sum.ovf]
    IN  Of(DurationAdd(d, IDiv(other, IFromInt(2)), wrap))

(***************************************************************************)
(* The relativistic scales: TT <-> TCG and TCB <-> TDB differ by a rate,   *)
(* applied to the time since 1977-01-01T00:00:32.184.                      *)
(***************************************************************************)
\* `second`, computed from the value of `first`, unless `first` panicked
After(first, second) ==
    IF ~first.ok THEN first
    ELSE [ok |-> second.ok, v |-> second.v, ovf |-> first.ovf \/ second.ovf]

\* epoch_offset + (x -/+ (x * numerator).div_round(denominator)),
\* x = time_since_epoch - epoch_offset, and then + constant
RateShifted(time_since_epoch, numerator, denominator, back, constant, wrap) ==
    LET epoch_offset == DurationMilliseconds(IFromInt(32184))
        Sum(x, difference) ==
            After(difference,
                  IF back THEN DurationSub(x, difference.v, wrap)
                  ELSE DurationAdd(x, difference.v, wrap))
        Rate(x, product) ==
            Sum(x, After(product, DivRound(product.v, denominator, wrap)))
        Shift(x) ==
            After(x, Rate(x.v, DurationChecked(IMul(x.v, numerator), wrap)))
        Offset(y) == After(y, DurationAdd(epoch_offset, y.v, wrap))
        Constant(z) == After(z, DurationAdd(z.v, constant, wrap))
    IN  Constant(Offset(Shift(DurationSub(time_since_epoch, epoch_offset, wrap))))

\* TcgTime::into_tt with the rate denominator of from_tt
TcgIntoTtSameRate(tcg, wrap) ==
    RateShifted(tcg, [neg |-> FALSE, mag |-> <<67, 645, 484, 3>>],
                [neg |-> FALSE, mag |-> <<933, 354, 515, 996, 999, 999, 4>>],
                TRUE, IZero, wrap)

\* rate 3_484_645_067 / 5_000_000_000_000_000_000
TcgIntoTt(tcg, wrap) ==
    RateShifted(tcg, [neg |-> FALSE, mag |-> <<67, 645, 484, 3>>],
                [neg |-> FALSE, mag |-> <<0, 0, 0, 0, 0, 0, 5>>],
                TRUE, IZero, wrap)

\* rate 3_484_645_067 / 4_999_999_996_515_354_933
TcgFromTt(tt, wrap) ==
    RateShifted(tt, [neg |-> FALSE, mag |-> <<67, 645, 484, 3>>],
                [neg |-> FALSE, mag |-> <<933, 354, 515, 996, 999, 999, 4>>],
                FALSE, IZero, wrap)

\* rate 193_814_971 / 12_500_000_000_000_000, and TDB0 = -65_500 ns
TdbFromTcb(tcb, wrap) ==
    RateShifted(tcb, [neg |-> FALSE, mag |-> <<971, 814, 193>>],
                [neg |-> FALSE, mag |-> <<0, 0, 0, 0, 500, 12>>],
                TRUE, IMul(IFromInt(-65500), Nano), wrap)

\* TcbTime from TDB with TCB0 = 65_500 ns, not scaled by the rate
TcbFromTdbPlainOffset(tdb, wrap) ==
    RateShifted(tdb, [neg |-> FALSE, mag |-> <<971, 814, 193>>],
                [neg |-> FALSE, mag |-> <<29, 185, 806, 999, 499, 12>>],
                FALSE, IMul(IFromInt(65500), Nano), wrap)

\* rate 193_814_971 / 12_499_999_806_185_029, and
\* TCB0 added before the epoch offset (two positive terms: the sum overflows in
\* either order or in none),
\* TCB0 = nanoseconds(65_500 * 12_500_000_000_000_000).div_round(12_499_999_806_185_029)
TcbFromTdb(tdb, wrap) ==
    RateShifted(tdb, [neg |-> FALSE, mag |-> <<971, 814, 193>>],
                [neg |-> FALSE, mag |-> <<29, 185, 806, 999, 499, 12>>],
                FALSE,
                DivRound(IMul(IMul(IFromInt(65500), [neg |-> FALSE, mag |-> <<0, 0, 0, 0, 500, 12>>]), Nano),
                         [neg |-> FALSE, mag |-> <<29, 185, 806, 999, 499, 12>>], FALSE).v,
                wrap)

\* from_time_scale between TT and TCG and between TCB and TDB
FromRelativisticScale(from, into, time_since_epoch, wrap) ==
    CASE from = "TT" /\ into = "TCG" -> TcgFromTt(time_since_epoch, wrap)
      [] from = "TCG" /\ into = "TT" -> TcgIntoTt(time_since_epoch, wrap)
      [] from = "TCB" /\ into = "TDB" -> TdbFromTcb(time_since_epoch, wrap)
      [] from = "TDB" /\ into = "TCB" -> TcbFromTdb(time_since_epoch, wrap)

(***************************************************************************)
(* Text: a string is the sequence of its characters.                       *)
(***************************************************************************)
DigitChars == <<"0", "1", "2", "3", "4", "5", "6", "7", "8", "9">>

\* `{}` of a non-negative integer: its decimal digits, without leading zeros
Decimal(n) ==
    LET RECURSIVE NatText(_)
        NatText(k) ==
            IF k < 10 THEN <<DigitChars[k + 1]>>
            ELSE NatText(k \div 10) \o <<DigitChars[(k % 10) + 1]>>
        Padded(k) ==
            <<DigitChars[(k \div 100) + 1], DigitChars[((k \div 10) % 10) + 1],
              DigitChars[(k % 10) + 1]>>
        RECURSIVE Lower(_)
        Lower(i) == IF i = 0 THEN <<>> ELSE Padded(n.mag[i]) \o Lower(i - 1)
    IN  IF n.mag = <<>> THEN <<"0">>
        ELSE NatText(n.mag[Len(n.mag)]) \o Lower(Len(n.mag) - 1)

\* FractionalDigitsIterator::from_signed(count, numerator, denominator,
\* precision, base), collected: precision is {} (None) or {p} (Some(p)); a
\* digit is below the base, so that its conversion to u8 cannot fail
FractionalDigits(count, numerator, denominator, precision, base) ==
    LET RECURSIVE Digits(_, _)
        Digits(remainder, current_digits) ==
            IF /\ IF precision = {} THEN remainder # IZero
                  ELSE \A p \in precision : current_digits < p
               /\ current_digits < 64
            THEN <<IToInt(IDiv(IMul(remainder, base), denominator))>>
                     \o Digits(IRem(IMul(remainder, base), denominator), current_digits + 1)
            ELSE <<>>
    IN  Digits(IRem(IMul(numerator, [neg |-> FALSE, mag |-> count.mag]), denominator), 0)

\* Display for Duration, with the precision given to the formatter ({} when
\* none is)
Format(d, precision) ==
    LET Abs(n) == [neg |-> FALSE, mag |-> n.mag]
        Part(n, designator) == IF n = IZero THEN <<>> ELSE Decimal(Abs(n)) \o <<designator>>
        Fraction(digits) == [i \in 1..Len(digits) |-> DigitChars[digits[i] + 1]]
        SecondsPart(seconds, remainder) ==
            IF seconds = IZero /\ remainder = IZero THEN <<>>
            ELSE Decimal(Abs(seconds))
                 \o (IF remainder = IZero THEN <<>>
                     ELSE <<".">> \o Fraction(FractionalDigits(remainder, IFromInt(1), Second,
                                                               precision, IFromInt(10))))
                 \o <<"S">>
        FromMinutes(minutes) ==
            Part(minutes.factored, "M")
                \o SecondsPart(FactorOut(minutes.remainder, Second).factored,
                               FactorOut(minutes.remainder, Second).remainder)
        FromHours(hours) ==
            Part(hours.factored, "H") \o FromMinutes(FactorOut(hours.remainder, SecondsPerMinute))
        FromDays(days) ==
            Part(days.factored, "D") \o <<"T">> \o FromHours(FactorOut(days.remainder, SecondsPerHour))
    IN  (IF d.neg THEN <<"-">> ELSE <<>>) \o <<"P">> \o FromDays(FactorOut(d, SecondsPerDay))

\* Duration::years, months, days, hours, minutes, seconds: the ratio of the
\* unit a designator stands for
DesignatedUnit(unit) ==
    CASE unit = "Years" -> [neg |-> FALSE, mag |-> <<0, 0, 0, 0, 0, 0, 952, 556, 31>>]
      [] unit = "Months" -> [neg |-> FALSE, mag |-> <<0, 0, 0, 0, 0, 0, 746, 629, 2>>]
      [] unit = "Days" -> SecondsPerDay
      [] unit = "Hours" -> SecondsPerHour
      [] unit = "Minutes" -> SecondsPerMinute
      [] unit = "Seconds" -> Second

\* lexical_core::parse_partial::<i128> on a string without a sign: the value
\* of the leading digits and their number.  Without any digit it fails
\* (`strict`) or returns (0, 0), by the features the crate was built with.
ParsePartial(string, strict) ==
    LET RECURSIVE Value(_)
        Value(k) ==
            IF k = 0 THEN IZero
            ELSE IAdd(IMul(Value(k - 1), IFromInt(10)),
                      IFromInt(CHOOSE v \in 0..9 : DigitChars[v + 1] = string[k]))
        IsDigit(c) == \E v \in 1..10 : DigitChars[v] = c
        Consumed(n) ==
            IF n = 0 /\ strict THEN [ok |-> FALSE, count |-> IZero, consumed |-> 0]
            ELSE [ok |-> TRUE, count |-> Value(n), consumed |-> n]
    IN  Consumed(CHOOSE n \in 0..Len(string) :
                    /\ \A i \in 1..n : IsDigit(string[i])
                    /\ n = Len(string) \/ ~IsDigit(string[n + 1]))

Parsed(duration) == [tag |-> "Ok", v |-> duration]

ParsingError(tag) == [tag |-> tag]

NonDecreasingDesignators(current) == [tag |-> "NonDecreasingDesignators", current |-> current]

\* what a designator means in each of the six states of the parser, named
\* after the largest unit still allowed: <<unit, next state>>, or <<unit>>
\* when the designator is rejected as out of order
Designators(state) ==
    CASE state = "years" ->
            [Y |-> <<"Years", "months">>, M |-> <<"Months", "days">>,
             D |-> <<"Days", "hours">>, H |-> <<"Hours", "minutes">>]
      [] state = "months" ->
            [Y |-> <<"Years">>, M |-> <<"Months", "days">>,
             D |-> <<"Days", "hours">>, H |-> <<"Hours", "minutes">>]
      [] state = "days" ->
            [Y |-> <<"Years">>, D |-> <<"Days", "hours">>,
             H |-> <<"Hours", "minutes">>, M |-> <<"Minutes", "seconds">>]
      [] state = "hours" ->
            [Y |-> <<"Years">>, D |-> <<"Days">>,
             H |-> <<"Hours", "minutes">>, M |-> <<"Minutes", "seconds">>]
      [] state = "minutes" ->
            [Y |-> <<"Years">>, D |-> <<"Days">>, H |-> <<"Hours">>,
             M |-> <<"Minutes", "seconds">>]
      [] state = "seconds" ->
            [Y |-> <<"Years">>, D |-> <<"Days">>, H |-> <<"Hours">>, M |-> <<"Minutes">>]

RECURSIVE ParseDuration(_, _, _, _)

\* parse_<state>_fractional_duration, `string` starting at the '.'
ParseFractionalDuration(state, string, duration, count, strict) ==
    LET Designated(unit, numerator, denominator) ==
            Parsed(IAdd(IAdd(duration, IMul(count, DesignatedUnit(unit))),
                        DivRound(IMul(numerator, DesignatedUnit(unit)), denominator, FALSE).v))
        RECURSIVE Power(_)
        Power(digits) == IF digits = 0 THEN IFromInt(1) ELSE IMul(IFromInt(10), Power(digits - 1))
        Designator(rest, subcount) ==
            IF rest = <<>> THEN ParsingError("ExpectedDurationDesignator")
            ELSE IF Tail(rest) # <<>> THEN ParsingError("UnexpectedRemainder")
            ELSE IF Head(rest) \in {"Y", "M", "D", "H"}
            THEN IF Len(Designators(state)[Head(rest)]) = 1
                 THEN NonDecreasingDesignators(Designators(state)[Head(rest)][1])
                 ELSE Designated(Designators(state)[Head(rest)][1],
                                 subcount.count, Power(subcount.consumed))
            ELSE IF Head(rest) = "S"
            THEN Designated("Seconds", subcount.count, Power(subcount.consumed))
            ELSE ParsingError("ExpectedDurationDesignator")
        Subcount(subcount) ==
            IF ~subcount.ok THEN ParsingError("IntegerParsingError")
            ELSE Designator(SubSeq(Tail(string), subcount.consumed + 1, Len(string) - 1), subcount)
    IN  Subcount(ParsePartial(Tail(string), strict))

\* parse_<state>_duration_designator
ParseDurationDesignator(state, string, duration, count, strict) ==
    LET Match(designator, rest) ==
            IF designator \in {"Y", "M", "D", "H"}
            THEN IF Len(Designators(state)[designator]) = 1
                 THEN NonDecreasingDesignators(Designators(state)[designator][1])
                 ELSE ParseDuration(Designators(state)[designator][2], rest,
                                    IAdd(duration,
                                         IMul(count, DesignatedUnit(Designators(state)[designator][1]))),
                                    strict)
            ELSE IF designator = "S"
            THEN IF rest # <<>> THEN ParsingError("UnexpectedRemainder")
                 ELSE Parsed(IAdd(duration, IMul(count, DesignatedUnit("Seconds"))))
            ELSE ParsingError("ExpectedDurationDesignator")
    IN  IF string = <<>> THEN ParsingError("ExpectedDurationDesignator")
        ELSE IF /\ state \in {"months", "days", "minutes", "seconds"}
                /\ Tail(string) # <<>> /\ Head(Tail(string)) = "T"
        THEN Match(Head(string), Tail(Tail(string)))
        ELSE Match(Head(string), Tail(string))

\* parse_<state>_duration: the remainder of the string after the components
\* before `state`, which add up to `duration`
ParseDuration(state, string, duration, strict) ==
    LET Counted(count) ==
            IF ~count.ok THEN ParsingError("IntegerParsingError")
            ELSE IF count.consumed < Len(string) /\ string[count.consumed + 1] = "."
            THEN ParseFractionalDuration(state, SubSeq(string, count.consumed + 1, Len(string)),
                                         duration, count.count, strict)
            ELSE ParseDurationDesignator(state, SubSeq(string, count.consumed + 1, Len(string)),
                                         duration, count.count, strict)
    IN  IF state # "years" /\ string = <<>> THEN Parsed(duration)
        ELSE IF state \in {"years", "months", "days"} /\ string # <<>> /\ Head(string) = "T"
        THEN ParseDuration("hours", Tail(string), duration, strict)
        ELSE Counted(ParsePartial(string, strict))

\* Duration::from_str
FromStr(string, strict) ==
    IF string # <<>> /\ Head(string) = "P" THEN ParseDuration("years", Tail(string), IZero, strict)
    ELSE ParsingError("ExpectedDurationPrefix")

(***************************************************************************)
(* Construction from a date of a calendar and a time of day, with and      *)
(* without subseconds.  The calendars are collaborators: to (year, month,  *)
(* day) they answer a date, or the error of the calendar carrying the      *)
(* three inputs.                                                           *)
(***************************************************************************)
\* from_fine_datetime: the coarse construction, then `+ subseconds`
FromFineDateTime(scale, date, hour, minute, second, subseconds, wrap) ==
    LET Fine(coarse_time_point, sum) ==
            IF ~sum.ok THEN PanicOverflow
            ELSE OkTime(sum.v, coarse_time_point.ovf \/ sum.ovf)
        Plus(coarse_time_point) ==
            IF coarse_time_point.tag # "Ok" THEN coarse_time_point
            ELSE Fine(coarse_time_point,
                      DurationAdd(coarse_time_point.t, subseconds, wrap))
    IN  Plus(FromDateTime(scale, date, hour, minute, second, wrap))

\* the two stages checked in the other order: the time of day first
FromCalendarDateTimeTimeFirst(scale, answer, hour, minute, second, fine, subseconds, wrap) ==
    LET Staged(r) ==
            IF r.tag = "Panic" THEN r
            ELSE IF r.tag # "Ok" THEN [tag |-> "InvalidDateTime", error |-> r]
            ELSE IF answer.tag # "Ok" THEN [tag |-> "InvalidDate", error |-> answer]
            ELSE r
    IN  Staged(FromFineDateTime(scale, IF answer.tag = "Ok" THEN answer.date ELSE 0,
                                hour, minute, second, subseconds, wrap))

\* from_historic_datetime, from_gregorian_datetime, from_julian_datetime and
\* (fine) from_fine_historic_datetime, from_fine_gregorian_datetime,
\* from_fine_julian_datetime: `?` on the calendar's answer, which turns its
\* error into the variant of the calendar, then the construction of the
\* scale, whose error is wrapped in InvalidDateTime
FromCalendarDateTime(scale, answer, hour, minute, second, fine, subseconds, wrap) ==
    LET Staged(r) ==
            IF r.tag \in {"Ok", "Panic"} THEN r
            ELSE [tag |-> "InvalidDateTime", error |-> r]
    IN  IF answer.tag # "Ok" THEN [tag |-> "InvalidDate", error |-> answer]
        ELSE IF fine
        THEN Staged(FromFineDateTime(scale, answer.date, hour, minute, second,
                                     subseconds, wrap))
        ELSE Staged(FromDateTime(scale, answer.date, hour, minute, second, wrap))

(***************************************************************************)
(* FractionalDigitsIterator, call by call, in i128: the sign change and    *)
(* the two products may overflow.                                          *)
(***************************************************************************)
ABSOLUTE_MAX_DIGITS == 64

\* from_signed: the iterator, or the panic of an overflow
FromSigned(count, numerator, denominator, precision, base, wrap) ==
    LET Iterator(product, ovf) ==
            IF ~product.ok THEN PanicOverflow
            ELSE [tag |-> "Iterator", remainder |-> IRem(product.v, denominator),
                  denominator |-> denominator, base |-> base, precision |-> precision,
                  current_digits |-> 0, ovf |-> ovf \/ product.ovf]
        Times(absolute) ==
            IF ~absolute.ok THEN PanicOverflow
            ELSE Iterator(DurationChecked(IMul(numerator, absolute.v), wrap), absolute.ovf)
    IN  Times(IF ~count.neg THEN DurationChecked(count, wrap)
              ELSE DurationChecked(INeg(count), wrap))

\* next: the iterator after the call and the item returned
IteratorNext(iterator, wrap) ==
    LET keep_going ==
            IF iterator.precision # {}
            THEN \A precision \in iterator.precision : iterator.current_digits < precision
            ELSE iterator.remainder # IZero
        Digit(product, digit) ==
            IF ~IFitsU8(digit)
            THEN [iterator |-> iterator, item |-> [tag |-> "Panic", ovf |-> product.ovf]]
            ELSE [iterator |-> [iterator EXCEPT
                                   !.current_digits = @ + 1,
                                   !.remainder = IRem(product.v, iterator.denominator)],
                  item |-> [tag |-> "Some", digit |-> IToInt(digit), ovf |-> product.ovf]]
        Times(product) ==
            IF ~product.ok THEN [iterator |-> iterator, item |-> PanicOverflow]
            ELSE Digit(product, IDiv(product.v, iterator.denominator))
    IN  IF keep_going /\ iterator.current_digits < ABSOLUTE_MAX_DIGITS
        THEN Times(DurationChecked(IMul(iterator.remainder, IFromInt(iterator.base)), wrap))
        ELSE [iterator |-> iterator, item |-> [tag |-> "None"]]

(***************************************************************************)
(* The decomposition with subseconds.                                      *)
(***************************************************************************)
\* into_fine_datetime: floor to the second, the difference, and the
\* decomposition of the floored instant
IntoFineDateTime(scale, t, wrap) ==
    LET Fine(coarse_time_point, subseconds, r) ==
            IF r.tag # "Ok" THEN r
            ELSE [tag |-> "Ok", date |-> r.date, hour |-> r.hour, minute |-> r.minute,
                  second |-> r.second, subseconds |-> subseconds.v,
                  ovf |-> coarse_time_point.ovf \/ subseconds.ovf \/ r.ovf]
        Minus(coarse_time_point, subseconds) ==
            IF ~subseconds.ok THEN PanicOverflow
            ELSE Fine(coarse_time_point, subseconds,
                      IntoDateTime(scale, coarse_time_point.v, wrap))
        Floored(coarse_time_point) ==
            IF ~coarse_time_point.ok THEN PanicOverflow
            ELSE Minus(coarse_time_point, DurationSub(t, coarse_time_point.v, wrap))
    IN  Floored(DurationChecked(Floor(t, Second), wrap))

(***************************************************************************)
(* The modified Julian date: a count of days, in i32, since 1858-11-17,    *)
(* which is 40587 days before 1970-01-01.                                  *)
(***************************************************************************)
MODIFIED_JULIAN_DATE_UNIX_EPOCH == 40587

\* ModifiedJulianDate::from_date
ModifiedJulianDateFromDate(date, wrap) ==
    DaysAdd(date, MODIFIED_JULIAN_DATE_UNIX_EPOCH, wrap)

\* into_modified_julian_date: the whole days of the time since epoch, by the
\* truncating `/` of i128, narrowed to i32, plus the days from 1858-11-17 to
\* the epoch of the scale
IntoModifiedJulianDate(scale, t, wrap) ==
    LET MODIFIED_JULIAN_EPOCH == 0 - MODIFIED_JULIAN_DATE_UNIX_EPOCH
        Since(epoch_julian_day, days_since_epoch) ==
            IF ~days_since_epoch.ok THEN PanicOverflow
            ELSE [tag |-> "Ok", mjd |-> days_since_epoch.v,
                  ovf |-> epoch_julian_day.ovf \/ days_since_epoch.ovf]
        Narrowed(epoch_julian_day, days) ==
            IF ~epoch_julian_day.ok THEN PanicOverflow
            ELSE IF ~IFitsI32(days) THEN PanicCast
            ELSE Since(epoch_julian_day, DaysAdd(IToInt(days), epoch_julian_day.v, wrap))
    IN  Narrowed(DaysSub(Epoch(scale), MODIFIED_JULIAN_EPOCH, wrap),
                 IDiv(t, DurationDays(IFromInt(1))))

\* from_modified_julian_date: the days since the epoch of the scale, in i32,
\* as a Duration
FromModifiedJulianDate(scale, mjd, wrap) ==
    LET MODIFIED_JULIAN_EPOCH == 0 - MODIFIED_JULIAN_DATE_UNIX_EPOCH
        Since(epoch_julian_day, days_since_epoch) ==
            IF ~days_since_epoch.ok THEN PanicOverflow
            ELSE OkTime(DaysIntoDuration(days_since_epoch.v),
                        epoch_julian_day.ovf \/ days_since_epoch.ovf)
        From(epoch_julian_day) ==
            IF ~epoch_julian_day.ok THEN PanicOverflow
            ELSE Since(epoch_julian_day, DaysSub(mjd, epoch_julian_day.v, wrap))
    IN  From(DaysSub(Epoch(scale), MODIFIED_JULIAN_EPOCH, wrap))

(***************************************************************************)
(* Display for TimePoint.  The date is written by the historic calendar,   *)
(* a collaborator; its year, month and day are those the scales give for   *)
(* their epochs, and for 1970-01-01, day 0.                                *)
(***************************************************************************)
\* "{:04}-{:02}-{:02}T{hour:02}:{minute:02}:{second:02}", then the decimal
\* point and the digits of the subseconds when these are not zero, then the
\* abbreviation of the scale
FormatTimePoint(scale, t, precision, wrap) ==
    LET historic_date(date) ==
            CASE date = 0 -> <<1970, 1, 1>>
              [] date = UtcEpoch -> <<1972, 1, 1>>
              [] date = TtEpoch -> <<1977, 1, 1>>
              [] date = GpstEpoch -> <<1980, 1, 6>>
              [] date = GlonasstEpoch -> <<1996, 1, 1>>
              [] date = QzsstEpoch -> <<1999, 8, 22>>
              [] date = BdtEpoch -> <<2006, 1, 1>>
        Padded(n, width) ==
            [i \in 1..(width - Len(Decimal(IFromInt(n)))) |-> "0"] \o Decimal(IFromInt(n))
        Fraction(digits) == [i \in 1..Len(digits) |-> DigitChars[digits[i] + 1]]
        Written(fine, ymd) ==
            Padded(ymd[1], 4) \o <<"-">> \o Padded(ymd[2], 2) \o <<"-">> \o Padded(ymd[3], 2)
                \o <<"T">> \o Padded(fine.hour, 2) \o <<":">> \o Padded(fine.minute, 2)
                \o <<":">> \o Padded(fine.second, 2)
                \o (IF fine.subseconds = IZero THEN <<>>
                    ELSE <<".">> \o Fraction(FractionalDigits(fine.subseconds, IFromInt(1),
                                                             Second, precision, IFromInt(10))))
                \o <<" ", scale>>
        Dated(fine) == IF fine.tag # "Ok" THEN fine ELSE Written(fine, historic_date(fine.date))
    IN  Dated(IntoFineDateTime(scale, t, wrap))
(***************************************************************************)
(* The state machine: a caller constructs an instant from a civil          *)
(* date-time (or from a raw time since epoch), and then decomposes it,     *)
(* constructs the instant of the next civil second, or converts it         *)
(* between terrestrial scales.                                             *)
(***************************************************************************)
VARIABLES
    pc,      \* "start", "made" (an instant was constructed), "split" (it was
             \* decomposed), "converted", "aborted" (a conversion panicked),
             \* "called" (an operation of Duration returned or panicked)
    build,   \* "any" until an overflow wrapped, then "wrapping"
    scale,   \* the time scale of the constructed instant
    civil,   \* the civil date-time given to from_datetime
    made,    \* what from_datetime returned
    prev,    \* the constructions before this one: <<[civil, made], ...>>
    split,   \* what into_datetime returned
    path,    \* the instant and what each conversion made of it: <<[scale, t, ovf], ...>>
    call     \* the last call of a Duration operation: its name, arguments, result

vars == <<pc, build, scale, civil, made, prev, split, path, call>>

None == [tag |-> "None"]

Civil(date, hour, minute, second) ==
    [tag |-> "Civil", date |-> date, hour |-> hour, minute |-> minute, second |-> second]

Overflowed(r) == r.tag \in {"Ok", "Panic"} /\ r.ovf

Init ==
    /\ pc = "start"
    /\ build = "any"
    /\ scale = "none"
    /\ civil = None
    /\ made = None
    /\ prev = <<>>
    /\ split = None
    /\ path = <<>>
    /\ call = None

\* an operation whose integer arithmetic may overflow runs in a build that
\* wraps or in one that panics, but not in the latter once an overflow wrapped
Build(wrap, r) ==
    /\ wrap \/ build = "any"
    /\ build' = IF wrap /\ Overflowed(r) THEN "wrapping" ELSE build

Instant(s, r) == [scale |-> s, t |-> r.t, ovf |-> r.ovf]

FromDateTimeCall(s, date, hour, minute, second) ==
    /\ pc = "start"
    /\ \E wrap \in BOOLEAN :
          /\ made' = FromDateTime(s, date, hour, minute, second, wrap)
          /\ Build(wrap, made')
    /\ pc' = "made"
    /\ scale' = s
    /\ civil' = Civil(date, hour, minute, second)
    /\ path' = IF made'.tag = "Ok" THEN <<Instant(s, made')>> ELSE <<>>
    /\ UNCHANGED <<prev, split, call>>

FromTimeSinceEpochCall(s, time_since_epoch) ==
    /\ pc = "start"
    /\ pc' = "made"
    /\ scale' = s
    /\ made' = OkTime(time_since_epoch, FALSE)
    /\ path' = <<Instant(s, made')>>
    /\ UNCHANGED <<build, civil, prev, split, call>>

IntoDateTimeCall ==
    /\ pc = "made"
    /\ made.tag = "Ok"
    /\ \E wrap \in BOOLEAN :
          /\ split' = IntoDateTime(scale, made.t, wrap)
          /\ Build(wrap, split')
    /\ pc' = "split"
    /\ UNCHANGED <<scale, civil, made, prev, path, call>>

\* the civil labels that may follow 23:59:58, 23:59:59 and 23:59:60
NextCivil(c) ==
    IF c.second = 58 THEN {Civil(c.date, 23, 59, 59)}
    ELSE IF c.second = 59 THEN {Civil(c.date, 23, 59, 60), Civil(c.date + 1, 0, 0, 0)}
    ELSE {Civil(c.date + 1, 0, 0, 0)}

\* from_datetime once more, for the civil second after the one just constructed
NextSecondCall ==
    /\ pc = "made"
    /\ made.tag = "Ok"
    /\ scale = "UTC"
    /\ civil.hour = 23 /\ civil.minute = 59 /\ civil.second >= 58
    /\ civil.date < I32Max
    /\ \E c \in NextCivil(civil), wrap \in BOOLEAN :
          /\ made' = FromDateTime(scale, c.date, c.hour, c.minute, c.second, wrap)
          /\ Build(wrap, made')
          /\ civil' = c
    /\ prev' = Append(prev, [civil |-> civil, made |-> made])
    /\ path' = IF made'.tag = "Ok" THEN <<Instant(scale, made')>> ELSE <<>>
    /\ UNCHANGED <<pc, scale, split, call>>

MaxHops == 2

Last(seq) == seq[Len(seq)]

\* into_time_scale / from_time_scale on the instant the path ends with
FromTimeScaleCall(into) ==
    /\ pc \in {"made", "converted"}
    /\ path # <<>>
    /\ Len(path) <= MaxHops
    /\ into # Last(path).scale
    /\ \E wrap \in BOOLEAN :
       \E r \in {FromTimeScale(Last(path).scale, into, Last(path).t, wrap)} :
          /\ Build(wrap, r)
          /\ IF r.tag = "Ok"
             THEN pc' = "converted" /\ path' = Append(path, Instant(into, r))
             ELSE pc' = "aborted" /\ path' = path
    /\ UNCHANGED <<scale, civil, made, prev, split, call>>

(***************************************************************************)
(* The inputs.                                                             *)
(***************************************************************************)
LeapSecondDays == {DateArms[i][1] : i \in {j \in 1..Len(DateArms) : DateArms[j][3]}}

Hours == {0, 2, 3, 12, 23, 24}
Minutes == {0, 59, 60}
Seconds == {0, 58, 59, 60, 61}

Dates(s) ==
    IF s \in LeapSecondScales
    THEN LeapSecondDays \cup {d + 1 : d \in LeapSecondDays}
         \cup {I32Min, I32Min + Epoch(s) - 1, I32Min + Epoch(s), -1, 0, 728, 16982, I32Max}
    ELSE {I32Min, I32Min + Epoch(s) - 1, I32Min + Epoch(s), -1, 0, Epoch(s) - 1,
          Epoch(s), 12552, I32Max}

CivilScales == (UniformScales \ {"TAI"}) \cup LeapSecondScales

Next ==
    \/ \E s \in CivilScales : \E date \in Dates(s) :
          \E hour \in Hours, minute \in Minutes, second \in Seconds :
             FromDateTimeCall(s, date, hour, minute, second)
    \/ IntoDateTimeCall
    \/ NextSecondCall

Spec == Init /\ [][Next]_vars

(***************************************************************************)
(* The conversions between terrestrial scales, from instants constructed   *)
(* from civil date-times and from raw times since epoch.                   *)
(***************************************************************************)
ConvertDates ==
    {I32Min, I32Min + GlonasstEpoch - 1, I32Min + GlonasstEpoch, -1, 729, 730, 9495,
     9496, 12552, 17166, 17167, I32Max}

ConvertTimes ==
    {<<0, 0, 0>>, <<2, 59, 59>>, <<3, 0, 0>>, <<16, 43, 32>>, <<23, 59, 59>>}

RawTimes ==
    {IZero, IFromInt(1), IFromInt(-1), DurationMilliseconds(IFromInt(-32184)),
     I128Max, I128Min}

NextConvert ==
    \/ \E s \in TerrestrialScales, date \in ConvertDates, time \in ConvertTimes :
          FromDateTimeCall(s, date, time[1], time[2], time[3])
    \/ \E s \in TerrestrialScales, t \in RawTimes : FromTimeSinceEpochCall(s, t)
    \/ \E into \in TerrestrialScales : FromTimeScaleCall(into)

SpecConvert == Init /\ [][NextConvert]_vars

(***************************************************************************)
(* A caller of the Duration operations applies one operation to a count,   *)
(* and the call is recorded.                                               *)
(***************************************************************************)
\* the counts: the halves, the multiples and their neighbours on both sides of
\* zero, at the scale of each unit, and the two ends of the i128 range
Counts ==
    LET Steps == {-1600, -1500, -1400, -1001, -1000, -999, -600, -501, -500, -499, -1,
                  0, 1, 499, 500, 501, 600, 999, 1000, 1001, 1400, 1500, 1600}
        Grains == {Atto, Milli, DurationMilliseconds(IFromInt(86400))}
    IN  {IMul(IFromInt(k), g) : k \in Steps, g \in Grains}
            \cup {I128Max, I128Min, ISub(I128Max, IFromInt(499)), IAdd(I128Min, IFromInt(499))}

Units == {Atto, Femto, Second, SecondsPerDay}

Divisors == {IFromInt(n) : n \in {0, 1, 2, 3, 10, 1000}}

Called(op, x, by, result) == [op |-> op, x |-> x, by |-> by, result |-> result]

RoundCall(x, unit) ==
    /\ pc = "start"
    /\ pc' = "called"
    /\ \E wrap \in BOOLEAN :
          /\ wrap \/ build = "any"
          /\ call' = Called("round", x, unit, Round(x, unit, wrap))
          /\ build' = IF wrap /\ call'.result.ovf THEN "wrapping" ELSE build
    /\ UNCHANGED <<scale, civil, made, prev, split, path>>

CeilCall(x, unit) ==
    /\ pc = "start"
    /\ pc' = "called"
    /\ \E wrap \in BOOLEAN :
          /\ wrap \/ build = "any"
          /\ call' = Called("ceil", x, unit, Ceil(x, unit, wrap))
          /\ build' = IF wrap /\ call'.result.ovf THEN "wrapping" ELSE build
    /\ UNCHANGED <<scale, civil, made, prev, split, path>>

FloorCall(x, unit) ==
    /\ pc = "start"
    /\ pc' = "called"
    /\ \E wrap \in BOOLEAN :
          /\ wrap \/ build = "any"
          /\ call' = Called("floor", x, unit, DurationChecked(Floor(x, unit), wrap))
          /\ build' = IF wrap /\ call'.result.ovf THEN "wrapping" ELSE build
    /\ UNCHANGED <<scale, civil, made, prev, split, path>>

\* truncate and factor_out cannot overflow: |(x / unit) * unit| <= |x|
TruncateCall(x, unit) ==
    /\ pc = "start"
    /\ pc' = "called"
    /\ call' = Called("truncate", x, unit, [ok |-> TRUE, v |-> Truncate(x, unit), ovf |-> FALSE])
    /\ UNCHANGED <<build, scale, civil, made, prev, split, path>>

FactorOutCall(x, unit) ==
    /\ pc = "start"
    /\ pc' = "called"
    /\ call' = Called("factor_out", x, unit,
                      [ok |-> TRUE, ovf |-> FALSE,
                       factored |-> FactorOut(x, unit).factored,
                       remainder |-> FactorOut(x, unit).remainder])
    /\ UNCHANGED <<build, scale, civil, made, prev, split, path>>

DivRoundCall(x, other) ==
    /\ pc = "start"
    /\ pc' = "called"
    /\ \E wrap \in BOOLEAN :
          /\ wrap \/ build = "any"
          /\ call' = Called("div_round", x, other, DivRound(x, other, wrap))
          /\ build' = IF wrap /\ call'.result.ovf THEN "wrapping" ELSE build
    /\ UNCHANGED <<scale, civil, made, prev, split, path>>

NextDuration ==
    \/ \E x \in Counts, unit \in Units : RoundCall(x, unit)
    \/ \E x \in Counts, unit \in Units : CeilCall(x, unit)
    \/ \E x \in Counts, unit \in Units : FloorCall(x, unit)
    \/ \E x \in Counts, unit \in Units : TruncateCall(x, unit)
    \/ \E x \in Counts, unit \in Units : FactorOutCall(x, unit)
    \/ \E x \in Counts, other \in Divisors : DivRoundCall(x, other)

SpecDuration == Init /\ [][NextDuration]_vars

(***************************************************************************)
(* The conversions between TT and TCG and between TCB and TDB, from        *)
(* instants constructed from raw times since epoch.                        *)
(***************************************************************************)
RelativisticPairs == {<<"TT", "TCG">>, <<"TCG", "TT">>, <<"TCB", "TDB">>, <<"TDB", "TCB">>}

\* times since epoch over the 32-bit range of attoseconds, its two ends
\* included, the two ends of the 64-bit range (-2^63 and 2^63 - 1) with times
\* within it (97_196_983_254_538 as, 854_311_449_997_017_148 as and their
\* opposites), and the two ends of the i128 range
RelativisticTimes ==
    {IFromInt(k * 71582788 + j) : k \in -30..30, j \in {-7, 0, 7}}
        \cup {IFromInt(I32Min), IFromInt(I32Max), I128Min, I128Max}
        \cup {[neg |-> n, mag |-> m] :
                 n \in BOOLEAN,
                 m \in {<<538, 254, 983, 196, 97>>, <<148, 17, 997, 449, 311, 854>>,
                        <<807, 775, 854, 36, 372, 223, 9>>}}
        \cup {[neg |-> TRUE, mag |-> <<808, 775, 854, 36, 372, 223, 9>>]}

FromRelativisticScaleCall(into) ==
    /\ pc \in {"made", "converted"}
    /\ path # <<>>
    /\ Len(path) <= MaxHops
    /\ <<Last(path).scale, into>> \in RelativisticPairs
    /\ \E wrap \in BOOLEAN :
       \E r \in {FromRelativisticScale(Last(path).scale, into, Last(path).t, wrap)} :
          /\ wrap \/ build = "any"
          /\ build' = IF wrap /\ r.ovf THEN "wrapping" ELSE build
          /\ IF r.ok
             THEN pc' = "converted"
                  /\ path' = Append(path, [scale |-> into, t |-> r.v, ovf |-> r.ovf])
             ELSE pc' = "aborted" /\ path' = path
    /\ UNCHANGED <<scale, civil, made, prev, split, call>>

NextRelativistic ==
    \/ \E s \in {"TT", "TCG", "TCB", "TDB"}, t \in RelativisticTimes :
          FromTimeSinceEpochCall(s, t)
    \/ \E into \in {"TT", "TCG", "TCB", "TDB"} : FromRelativisticScaleCall(into)

SpecRelativistic == Init /\ [][NextRelativistic]_vars

(***************************************************************************)
(* The text of durations: a caller formats a duration and parses what was  *)
(* written, or parses a text of its own.                                   *)
(***************************************************************************)
MaxTokens == 4

Tokens ==
    {<<"P">>, <<"T">>, <<"1", "Y">>, <<"1", "M">>, <<"1", "D">>, <<"1", "H">>, <<"1", "S">>,
     <<"1", ".", "5", "S">>, <<" ", "e">>}

\* the texts of at most MaxTokens tokens
Texts ==
    LET RECURSIVE Of(_)
        Of(k) == IF k = 0 THEN {<<>>}
                 ELSE Of(k - 1) \cup {text \o token : text \in Of(k - 1), token \in Tokens}
    IN  Of(MaxTokens)

\* whole seconds, sub-second fractions, composites of hours, minutes and
\* seconds, composites with days, negative durations, and the two ends of the
\* i128 range
Formatted ==
    LET Time(days, hours, minutes, seconds, attoseconds) ==
            IAdd(IAdd(IAdd(DurationDays(IFromInt(days)), DurationHours(IFromInt(hours))),
                      IAdd(DurationMinutes(IFromInt(minutes)), DurationSeconds(IFromInt(seconds)))),
                 attoseconds)
    IN  {Time(days, time[1], time[2], time[3], attoseconds) :
            days \in {0, 1, 400},
            time \in {<<0, 0, 0>>, <<0, 0, 5>>, <<0, 0, 59>>, <<0, 4, 0>>, <<1, 2, 3>>, <<23, 59, 59>>},
            attoseconds \in {IZero, Atto, DurationMilliseconds(IFromInt(500)),
                             DurationMilliseconds(IFromInt(123)), ISub(Second, Atto)}}
            \cup {INeg(DurationSeconds(IFromInt(5))), INeg(DurationMilliseconds(IFromInt(1500))),
                  INeg(DurationDays(IFromInt(1))), I128Max, I128Min}

Precisions == {{}, {0}, {3}}

\* to_string / format!("{:.precision}")
FormatCall(d, precision) ==
    /\ pc = "start"
    /\ pc' = "called"
    /\ call' = Called("format", d, precision, Format(d, precision))
    /\ UNCHANGED <<build, scale, civil, made, prev, split, path>>

\* from_str on a text of the caller
FromStrCall ==
    /\ pc = "start"
    /\ pc' = "called"
    /\ \E string \in Texts, strict \in BOOLEAN :
          call' = Called("from_str", string, None, FromStr(string, strict))
    /\ UNCHANGED <<build, scale, civil, made, prev, split, path>>

\* from_str on the text that was formatted; the call keeps the one it follows
FromStrOfFormattedCall ==
    /\ pc = "called"
    /\ call.op = "format"
    /\ pc' = "parsed"
    /\ \E strict \in BOOLEAN : call' = Called("from_str", call.result, call, FromStr(call.result, strict))
    /\ UNCHANGED <<build, scale, civil, made, prev, split, path>>

\* to_string / format!("{:.precision}") of an instant on the day of the
\* epoch of its scale
FormatTimePointCall(s, t, precision) ==
    /\ pc = "start"
    /\ pc' = "called"
    /\ call' = Called("format_time_point", [scale |-> s, t |-> t], precision,
                      FormatTimePoint(s, t, precision, FALSE))
    /\ UNCHANGED <<build, scale, civil, made, prev, split, path>>

NextText ==
    \/ \E d \in Formatted, precision \in Precisions : FormatCall(d, precision)
    \/ FromStrCall
    \/ FromStrOfFormattedCall
    \/ \E s \in CivilScales, precision \in Precisions :
       \E t \in {DurationSeconds(IFromInt(40)), DurationMilliseconds(IFromInt(40500)),
                 IAdd(DurationSeconds(IFromInt(41)), Atto),
                 DurationMilliseconds(IFromInt(45296789)),
                 ISub(DurationDays(IFromInt(1)), Atto)} :
          FormatTimePointCall(s, t, precision)

SpecText == Init /\ [][NextText]_vars

(***************************************************************************)
(* A caller constructs an instant from a raw time since epoch, which may   *)
(* be negative and need not be a whole number of seconds, and decomposes   *)
(* it.                                                                     *)
(***************************************************************************)
\* the first instant of the leap second that ends the UTC day `date`
LeapSecondStart(date) == UtcFromDateTime(date, 23, 59, 60, FALSE).t

\* the times since epoch: around zero, around the ends of a day, at the two
\* ends of the dates of the scale, at the two ends of the i128 range, and in
\* and around three leap seconds
InstantTimes(s) ==
    LET Around(t) ==
            {ISub(t, Second), ISub(t, Atto), t, IAdd(t, Atto),
             IAdd(t, DurationMilliseconds(IFromInt(500))), ISub(IAdd(t, Second), Atto),
             IAdd(t, Second)}
        Ends == {IFromInt(I32Min), ISub(IFromInt(I32Min), IFromInt(Epoch(s))),
                 ISub(IFromInt(I32Max), IFromInt(Epoch(s))),
                 ISub(IFromInt(I32Max), IFromInt(Epoch(s) - 1)), IFromInt(I32Max),
                 ISub(IFromInt(I32Min), IFromInt(Epoch(s) - 1))}
        OfScale(utc_time) ==
            IF s = "UTC" THEN utc_time
            ELSE FromTimeScale("UTC", s, utc_time, FALSE).t
    IN  Around(IZero)
            \cup Around(DurationDays(IFromInt(1)))
            \cup Around(INeg(DurationDays(IFromInt(1))))
            \cup {ISub(DurationDays(k), by) : k \in Ends, by \in {IZero, Atto}}
            \cup {I128Min, I128Max}
            \cup (IF s \in LeapSecondScales
                  THEN UNION {Around(OfScale(LeapSecondStart(date))) :
                                 date \in {911, 9495, 17166}}
                  ELSE {})

\* the answers of the calendars: a date, or the rejection of a day that the
\* calendar does not have
CalendarAnswers ==
    {[tag |-> "Ok", date |-> date] : date \in {-1, 17166, 17167}}
        \cup {[tag |-> "InvalidHistoricDate", year |-> 1582, month |-> 10, day |-> 10],
              [tag |-> "InvalidGregorianDate", year |-> 2023, month |-> 2, day |-> 29],
              [tag |-> "InvalidJulianDate", year |-> 1900, month |-> 4, day |-> 31]}

\* from_historic_datetime and the like, on the answer the calendar gave
FromCalendarDateTimeCall(s, answer, hour, minute, second, fine, subseconds) ==
    /\ pc = "start"
    /\ pc' = "called"
    /\ \E wrap \in BOOLEAN :
          /\ wrap \/ build = "any"
          /\ call' = Called("from_calendar_datetime",
                            [scale |-> s, answer |-> answer, hour |-> hour,
                             minute |-> minute, second |-> second, fine |-> fine,
                             subseconds |-> subseconds, wrap |-> wrap],
                            None,
                            FromCalendarDateTime(s, answer, hour, minute, second, fine,
                                                 subseconds, wrap))
          /\ build' = IF wrap /\ Overflowed(call'.result) THEN "wrapping" ELSE build
    /\ UNCHANGED <<scale, civil, made, prev, split, path>>

IntoFineDateTimeCall ==
    /\ pc = "made"
    /\ made.tag = "Ok"
    /\ \E wrap \in BOOLEAN :
          /\ split' = IntoFineDateTime(scale, made.t, wrap)
          /\ Build(wrap, split')
    /\ pc' = "split"
    /\ call' = Called("into_fine_datetime", made.t, None, split')
    /\ UNCHANGED <<scale, civil, made, prev, path>>

\* from_fine_datetime on the parts that into_fine_datetime returned
FromFineDateTimeCall ==
    /\ pc = "split"
    /\ split.tag = "Ok"
    /\ call # None /\ call.op = "into_fine_datetime"
    /\ pc' = "rebuilt"
    /\ \E wrap \in BOOLEAN :
          /\ wrap \/ build = "any"
          /\ call' = Called("from_fine_datetime", split, None,
                            FromFineDateTime(scale, split.date, split.hour, split.minute,
                                             split.second, split.subseconds, wrap))
          /\ build' = IF wrap /\ Overflowed(call'.result) THEN "wrapping" ELSE build
    /\ UNCHANGED <<scale, civil, made, prev, split, path>>

\* from_modified_julian_date; the instant is one constructed from a raw time
FromModifiedJulianDateCall(s, mjd) ==
    /\ pc = "start"
    /\ pc' = "made"
    /\ scale' = s
    /\ \E wrap \in BOOLEAN :
          /\ made' = FromModifiedJulianDate(s, mjd, wrap)
          /\ Build(wrap, made')
    /\ path' = IF made'.tag = "Ok" THEN <<Instant(s, made')>> ELSE <<>>
    /\ call' = Called("from_modified_julian_date", mjd, None, made')
    /\ UNCHANGED <<civil, prev, split>>

\* into_modified_julian_date; the call keeps the one it follows
IntoModifiedJulianDateCall ==
    /\ pc = "made"
    /\ made.tag = "Ok"
    /\ pc' = "dated"
    /\ \E wrap \in BOOLEAN :
          /\ wrap \/ build = "any"
          /\ call' = Called("into_modified_julian_date", made.t, call,
                            IntoModifiedJulianDate(scale, made.t, wrap))
          /\ build' = IF wrap /\ Overflowed(call'.result) THEN "wrapping" ELSE build
    /\ UNCHANGED <<scale, civil, made, prev, split, path>>

NextInstant ==
    \/ \E s \in CivilScales : \E t \in InstantTimes(s) : FromTimeSinceEpochCall(s, t)
    \/ IntoDateTimeCall
    \/ IntoFineDateTimeCall
    \/ FromFineDateTimeCall
    \/ \E s \in CivilScales \ LeapSecondScales, mjd \in {I32Min, -1, 0, 43143, 43144, 51544, I32Max} :
          FromModifiedJulianDateCall(s, mjd)
    \/ IntoModifiedJulianDateCall
    \/ \E s \in {"TT", "GPST", "UTC", "GLONASST"}, answer \in CalendarAnswers :
       \E hour \in {2, 23, 24}, minute \in {59, 60}, second \in {59, 60, 61} :
       \E fine \in BOOLEAN,
          subseconds \in {IZero, DurationMilliseconds(IFromInt(500)), I128Max} :
          FromCalendarDateTimeCall(s, answer, hour, minute, second, fine, subseconds)

SpecInstant == Init /\ [][NextInstant]_vars

(***************************************************************************)
(* A caller constructs an iterator over fractional digits and calls next   *)
(* on it, again and again, also after it returned None.                    *)
(***************************************************************************)
FromSignedCall(count, numerator, denominator, precision, base) ==
    /\ pc = "start"
    /\ \E wrap \in BOOLEAN :
       \E iterator \in {FromSigned(count, numerator, denominator, precision, base, wrap)} :
          /\ wrap \/ build = "any"
          /\ build' = IF wrap /\ iterator.ovf THEN "wrapping" ELSE build
          /\ pc' = IF iterator.tag = "Panic" THEN "aborted" ELSE "iterating"
          /\ call' = Called("from_signed",
                            [count |-> count, numerator |-> numerator,
                             denominator |-> denominator, precision |-> precision,
                             base |-> base, iterator |-> iterator],
                            <<>>, iterator)
    /\ UNCHANGED <<scale, civil, made, prev, split, path>>

\* next: `by` collects the digits returned so far
NextCall ==
    /\ pc = "iterating"
    /\ \E wrap \in BOOLEAN :
       \E next \in {IteratorNext(call.x.iterator, wrap)} :
          /\ wrap \/ build = "any"
          /\ build' = IF wrap /\ next.item.tag \in {"Some", "Panic"} /\ next.item.ovf
                      THEN "wrapping" ELSE build
          /\ pc' = IF next.item.tag = "Panic" THEN "aborted" ELSE "iterating"
          /\ call' = Called("next", [call.x EXCEPT !.iterator = next.iterator],
                            IF next.item.tag = "Some"
                            THEN Append(call.by, next.item.digit) ELSE call.by,
                            next.item)
    /\ UNCHANGED <<scale, civil, made, prev, split, path>>

NextDigits ==
    \/ \E count \in {IZero, IFromInt(1), IFromInt(7854), IFromInt(-7854), IFromInt(500),
                     [neg |-> FALSE, mag |-> <<0, 0, 0, 0, 0, 0, 0, 0, 0, 0, 0, 0, 50>>],
                     I128Max, I128Min},
          denominator \in {IFromInt(1), IFromInt(3), IFromInt(1000), Second,
                           [neg |-> FALSE, mag |-> <<0, 0, 0, 0, 0, 0, 0, 0, 0, 0, 0, 0, 100>>],
                           I128Max} :
       \E numerator \in {IFromInt(1), IFromInt(3)},
          precision \in {{}, {0}, {3}, {64}, {65}, {100}},
          base \in {2, 10, 255} :
          FromSignedCall(count, numerator, denominator, precision, base)
    \/ NextCall

SpecDigits == Init /\ [][NextDigits]_vars

(***************************************************************************)
(* The properties.                                                         *)
(***************************************************************************)

\* C1: on every uniform scale (TT, TCG, TCB, TDB, GPST, QZSST, BDT), for
\* every date of the 32-bit day-count range and every 0 <= h < 24,
\* 0 <= m < 60, 0 <= s < 60, from_datetime succeeds and into_datetime of the
\* constructed instant returns exactly (d, h, m, s).
C1_UniformRoundTrip ==
    (pc # "start" /\ scale \in UniformScales
        /\ civil.hour < 24 /\ civil.minute < 60 /\ civil.second < 60) =>
        /\ made.tag = "Ok"
        /\ pc = "split" =>
              split = OkDateTime(civil.date, civil.hour, civil.minute, civil.second, FALSE)

\* C1, where the days since the scale epoch fit the day count: the round
\* trip returns exactly (d, h, m, s); elsewhere the narrowing of the days
\* since the scale epoch panics.
C1_UniformRoundTripInRange ==
    (pc = "split" /\ scale \in UniformScales) =>
        IF SubOverflows(civil.date, Epoch(scale))
        THEN split = PanicCast
        ELSE split = OkDateTime(civil.date, civil.hour, civil.minute, civil.second, FALSE)

C1_PanicsAtFirstDate ==
    /\ pc = "split" /\ scale = "TT"
    /\ civil = Civil(I32Min, 0, 0, 0)
    /\ made.tag = "Ok" /\ ~made.ovf
    /\ split = PanicCast

\* C2: for every date on which no arithmetic overflow occurs and every
\* 0 <= h < 24, 0 <= m < 60, 0 <= s < 60, UtcTime::into_datetime of
\* UtcTime::from_datetime(d, h, m, s) is (d, h, m, s): on leap-second days,
\* on the day after them and before the 1972 epoch alike.
C2_UtcRoundTrip ==
    (pc = "split" /\ scale = "UTC" /\ civil.second <= 59 /\ ~made.ovf) =>
        split = OkDateTime(civil.date, civil.hour, civil.minute, civil.second, FALSE)

C2_RoundTripAfterInsertion ==
    /\ pc = "split" /\ scale = "UTC"
    /\ civil = Civil(17167, 0, 0, 0)
    /\ split = OkDateTime(17167, 0, 0, 0, FALSE)

\* C3: for every leap-second day d of the static table and every hour h and
\* minute m for which UtcTime::from_datetime(d, h, m, 60) succeeds,
\* into_datetime of the constructed instant returns (d, h, m, 60).
C3_UtcLeapSecondRoundTrip ==
    (pc = "split" /\ scale = "UTC" /\ civil.second = 60
        /\ civil.date \in LeapSecondDays) =>
        split = OkDateTime(civil.date, civil.hour, civil.minute, 60, FALSE)

\* C3, at 23:59:60 only: the leap second itself is returned as
\* (d, 23, 59, 60); any other accepted hh:mm:60 comes back as the first
\* second of the next minute.
C3_UtcLeapSecondRoundTripAtMidnight ==
    (pc = "split" /\ scale = "UTC" /\ civil.second = 60) =>
        /\ civil.date \in LeapSecondDays
        /\ (civil.hour = 23 /\ civil.minute = 59) =>
              split = OkDateTime(civil.date, 23, 59, 60, FALSE)
        /\ (civil.hour = 12 /\ civil.minute = 0) =>
              split = OkDateTime(civil.date, 12, 1, 0, FALSE)

C3_NoonLeapSecondAccepted ==
    /\ pc = "split" /\ scale = "UTC"
    /\ civil = Civil(911, 12, 0, 60)
    /\ made.tag = "Ok"
    /\ split = OkDateTime(911, 12, 1, 0, FALSE)

C5_ConversionInvolution ==
    \A i \in 1..(Len(path) - 2) :
        (path[i + 2].scale = path[i].scale /\ ~path[i + 1].ovf /\ ~path[i + 2].ovf) =>
            path[i + 2].t = path[i].t

C5_ThereAndBack ==
    /\ Len(path) = 3
    /\ path[1].scale = "TT" /\ path[2].scale = "GLONASST" /\ path[3].scale = "TT"
    /\ path[1].t = DurationMilliseconds(IFromInt(-32184))
    /\ path[2].t # path[1].t
    /\ path[3].t = path[1].t

C8_CivilOffset ==
    (Len(path) >= 2 /\ civil # None
        /\ scale \in {"TAI", "TT", "GPST", "QZSST", "BDT"}
        /\ path[2].scale \in {"TAI", "TT", "GPST", "QZSST", "BDT"}) =>
        /\ path[2].t =
              IAdd(UniformFromDateTime(path[2].scale, civil.date, civil.hour,
                                       civil.minute, civil.second).t,
                   ISub(TaiOffset(path[2].scale), TaiOffset(scale)))
        /\ (scale = "TAI" /\ civil = Civil(12552, 16, 43, 32)) =>
              /\ path[2].scale \in {"GPST", "QZSST"} =>
                    path[2].t = UniformFromDateTime(path[2].scale, 12552, 16, 43, 13).t
              /\ path[2].scale = "TT" =>
                    path[2].t = IAdd(UniformFromDateTime("TT", 12552, 16, 44, 4).t,
                                     DurationMilliseconds(IFromInt(184)))

C8_TaiIsGpstPlus19 ==
    /\ Len(path) = 2 /\ scale = "TAI" /\ path[2].scale = "GPST"
    /\ civil = Civil(12552, 16, 43, 32)
    /\ ~path[2].ovf
    /\ path[2].t = UniformFromDateTime("GPST", 12552, 16, 43, 13).t

\* C9: for every civil date-time (d, h, m, s) that GlonassTime::from_datetime
\* accepts, second = 60 included (the leap second, 02:59:60 of the day after
\* the UTC leap-second day), into_datetime of the constructed instant returns
\* (d, h, m, s).  Stated here for the constructions without overflow and, of
\* those with second = 60, for 02:59:60.
C9_GlonassRoundTrip ==
    (pc = "split" /\ scale = "GLONASST" /\ ~made.ovf
        /\ (civil.second = 60 => civil.hour = 2 /\ civil.minute = 59)) =>
        split = OkDateTime(civil.date, civil.hour, civil.minute, civil.second, FALSE)

\* C9, for the seconds up to 59: the round trip returns (d, h, m, s); the
\* leap second 02:59:60 of the day after a leap-second day comes back as
\* 23:59:60 of the day before.
C9_GlonassRoundTripRegular ==
    (pc = "split" /\ scale = "GLONASST" /\ ~made.ovf) =>
        /\ civil.second <= 59 =>
              split = OkDateTime(civil.date, civil.hour, civil.minute, civil.second, FALSE)
        /\ (civil.second = 60 /\ civil.hour = 2 /\ civil.minute = 59) =>
              split = OkDateTime(civil.date - 1, 23, 59, 60, FALSE)

C9_LeapSecondComesBackAsMidnight ==
    /\ pc = "split" /\ scale = "GLONASST"
    /\ civil = Civil(912, 2, 59, 60)
    /\ made.tag = "Ok" /\ ~made.ovf
    /\ split = OkDateTime(911, 23, 59, 60, FALSE)

Returned(op) == call # None /\ call.op = op /\ call.result.ok /\ ~call.result.ovf

\* |a - b|
Distance(a, b) == [neg |-> FALSE, mag |-> ISub(a, b).mag]

\* C13: round<U> returns the multiple of U nearest to the count x, for every
\* x, negative ones included: |round<U>(x) - x| <= U/2.
C13_RoundToNearest ==
    Returned("round") =>
        ILe(IMul(IFromInt(2), Distance(call.result.v, call.x)), call.by)

\* C13 on the counts that are not negative
C13_RoundToNearestNonNegative ==
    (Returned("round") /\ ~call.x.neg) =>
        ILe(IMul(IFromInt(2), Distance(call.result.v, call.x)), call.by)

\* -600 as rounded to femtoseconds is zero, 600 as away, and not -1 fs
C13_NegativeRoundsTowardZero ==
    /\ Returned("round")
    /\ call.x = IFromInt(-600) /\ call.by = Femto
    /\ call.result.v = IZero

\* C14: div_round divides with round-to-nearest: for every count x, negative
\* ones included, and every positive divisor n the quotient q has
\* |q * n - x| <= n/2.
C14_DivRoundToNearest ==
    (Returned("div_round") /\ ILt(IZero, call.by)) =>
        ILe(IMul(IFromInt(2), Distance(IMul(call.result.v, call.by), call.x)), call.by)

\* C14 on the counts that are not negative
C14_DivRoundToNearestNonNegative ==
    (Returned("div_round") /\ ILt(IZero, call.by) /\ ~call.x.neg) =>
        ILe(IMul(IFromInt(2), Distance(IMul(call.result.v, call.by), call.x)), call.by)

\* -600 divided by 1000 is 0, though -1 is nearer
C14_NegativeQuotientTowardZero ==
    /\ Returned("div_round")
    /\ call.x = IFromInt(-600) /\ call.by = IFromInt(1000)
    /\ call.result.v = IZero

\* C15: round, ceil, floor and truncate each return an exact multiple of U
\* less than one unit away from the count x, with floor <= x <= ceil and
\* truncate between 0 and x.
C15_UnitMultiples ==
    \A op \in {"round", "ceil", "floor", "truncate"} :
        Returned(op) =>
            /\ IRem(call.result.v, call.by) = IZero
            /\ ILt(Distance(call.result.v, call.x), call.by)
            /\ op = "floor" => ILe(call.result.v, call.x)
            /\ op = "ceil" => IGe(call.result.v, call.x)
            /\ op = "truncate" =>
                  /\ call.result.v = IZero \/ call.result.v.neg = call.x.neg
                  /\ ILe(Distance(call.result.v, IZero), Distance(call.x, IZero))

\* C15 without the rounding of negative counts
C15_UnitMultiplesButNegativeRound ==
    \A op \in {"round", "ceil", "floor", "truncate"} :
        (Returned(op) /\ ~(op = "round" /\ call.x.neg)) =>
            /\ IRem(call.result.v, call.by) = IZero
            /\ ILt(Distance(call.result.v, call.x), call.by)
            /\ op = "floor" => ILe(call.result.v, call.x)
            /\ op = "ceil" => IGe(call.result.v, call.x)
            /\ op = "truncate" =>
                  /\ call.result.v = IZero \/ call.result.v.neg = call.x.neg
                  /\ ILe(Distance(call.result.v, IZero), Distance(call.x, IZero))

\* -1400 as rounded to femtoseconds is zero, more than a femtosecond away
C15_RoundMoreThanAUnitAway ==
    /\ Returned("round")
    /\ call.x = IFromInt(-1400) /\ call.by = Femto
    /\ call.result.v = IZero

\* C16: factor_out<U> returns (whole_units, remainder) with
\* whole_units * U + remainder = x and |remainder| < U, the remainder having
\* the sign of x or being zero, for every count x of the i128 range.
C16_FactorOut ==
    (call # None /\ call.op = "factor_out") =>
        /\ call.result.ok /\ ~call.result.ovf
        /\ IAdd(IMul(call.result.factored, call.by), call.result.remainder) = call.x
        /\ ILt(Distance(call.result.remainder, IZero), call.by)
        /\ call.result.remainder = IZero \/ call.result.remainder.neg = call.x.neg
        /\ IFitsI128(call.result.factored) /\ IFitsI128(call.result.remainder)

\* -1400 as is -1 fs and -400 as
C16_NegativeRemainder ==
    /\ call # None /\ call.op = "factor_out"
    /\ call.x = IFromInt(-1400) /\ call.by = Femto
    /\ call.result.factored = IFromInt(-1)
    /\ call.result.remainder = IFromInt(-400)

(***************************************************************************)
(* The relativistic round trips.                                           *)
(***************************************************************************)
\* the path went from scale `a` to `b` and back, starting within the 32-bit
\* range of attoseconds
ThereAndBack(a, b) ==
    /\ Len(path) = 3
    /\ path[1].scale = a /\ path[2].scale = b /\ path[3].scale = a
    /\ IFitsI32(path[1].t)

\* C11: a TT instant within +-2^31 attoseconds of the epoch, converted to
\* TCG and back to TT, differs from the original by less than 10 attoseconds.
C11_TtTcgRoundTrip ==
    ThereAndBack("TT", "TCG") =>
        /\ ~path[3].ovf
        /\ ILt(Distance(path[3].t, path[1].t), IFromInt(10))

\* TT = -2_147_483_648 as is TCG = -24_577_447_031 as, and comes back
C11_FromTheLowerEnd ==
    /\ ThereAndBack("TT", "TCG")
    /\ path[1].t = IFromInt(I32Min)
    /\ path[2].t = [neg |-> TRUE, mag |-> <<31, 447, 577, 24>>]

\* C12: a TDB instant within the 32-bit range of attoseconds, converted to
\* TCB and back to TDB, differs from the original by less than 10
\* attoseconds in absolute value.
C12_TdbTcbRoundTrip ==
    ThereAndBack("TDB", "TCB") =>
        /\ ~path[3].ovf
        /\ ILt(Distance(path[3].t, path[1].t), IFromInt(10))

\* TDB = 2_147_483_647 as is TCB = 65_003_129_209_401 as, and comes back
C12_FromTheUpperEnd ==
    /\ ThereAndBack("TDB", "TCB")
    /\ path[1].t = IFromInt(I32Max)
    /\ path[2].t = [neg |-> FALSE, mag |-> <<401, 209, 129, 3, 65>>]

(***************************************************************************)
(* The text of durations.                                                  *)
(***************************************************************************)
\* from_str was called on what Display wrote, without a precision, for a
\* duration that is not negative
ParsedBack ==
    /\ call # None /\ call.op = "from_str" /\ call.by # None
    /\ call.by.by = {} /\ ~call.by.x.neg

\* C17: parsing the Display output of a duration returns the duration, for
\* whole seconds, sub-second fractions and composites of days, hours,
\* minutes and seconds: parse(format(x)) = x.
C17_ParseFormatRoundTrip ==
    ParsedBack => call.result = Parsed(call.by.x)

\* C17 for the durations of less than a day
C17_ParseFormatRoundTripBelowADay ==
    (ParsedBack /\ ILt(call.by.x, SecondsPerDay)) => call.result = Parsed(call.by.x)

\* 1 day 1 h 2 min 3 s is written P1DT1H2M3S, which is not parsed
C17_DaysNotParsedBack ==
    /\ ParsedBack
    /\ call.by.x = IMul(IFromInt(86400 + 3723), Second)
    /\ call.x = <<"P", "1", "D", "T", "1", "H", "2", "M", "3", "S">>
    /\ call.result.tag \in {"ExpectedDurationDesignator", "IntegerParsingError"}

\* from_str was called on a text of the caller
ParsedText == call # None /\ call.op = "from_str" /\ call.by = None

\* C18: from_str returns ExpectedDurationPrefix for every string that does
\* not start with 'P', NonDecreasingDesignators{current: Years} for "P1M1Y",
\* and UnexpectedRemainder for every string with input left after a seconds
\* component: after a prefix that ends in 'S' and is a duration on its own.
C18_DocumentedFailures ==
    ParsedText =>
        /\ (call.x = <<>> \/ Head(call.x) # "P") =>
              call.result = ParsingError("ExpectedDurationPrefix")
        /\ call.x = <<"P", "1", "M", "1", "Y">> =>
              call.result = NonDecreasingDesignators("Years")
        /\ \A k \in 1..(Len(call.x) - 1) :
              (call.x[k] = "S" /\ FromStr(SubSeq(call.x, 1, k), TRUE).tag = "Ok") =>
                  call.result = ParsingError("UnexpectedRemainder")

\* C18 without the texts in which a 'T' follows the seconds
C18_DocumentedFailuresButT ==
    ParsedText =>
        /\ (call.x = <<>> \/ Head(call.x) # "P") =>
              call.result = ParsingError("ExpectedDurationPrefix")
        /\ call.x = <<"P", "1", "M", "1", "Y">> =>
              call.result = NonDecreasingDesignators("Years")
        /\ \A k \in 1..(Len(call.x) - 1) :
              (/\ call.x[k] = "S" /\ FromStr(SubSeq(call.x, 1, k), TRUE).tag = "Ok"
               /\ call.x[k + 1] # "T") =>
                  call.result = ParsingError("UnexpectedRemainder")

\* "P1Y1ST" is accepted as a year and a second
C18_TrailingTAccepted ==
    /\ ParsedText
    /\ call.x = <<"P", "1", "Y", "1", "S", "T">>
    /\ call.result = Parsed(IAdd(DesignatedUnit("Years"), Second))

\* a text of the caller made of 'P' and then components of a number and a
\* designator, with or without 'T's among them
Components ==
    /\ ParsedText
    /\ call.x # <<>> /\ Head(call.x) = "P"
    /\ \A i \in 2..Len(call.x) : call.x[i] \in {"1", "T", "Y", "M", "D", "H", "S"}

\* the designators in decreasing unit order: months before the days, minutes
\* after the hours
UnitOrder == <<"Y", "M", "D", "H", "M", "S">>

\* the position in `string`, from `i` on, of the first designator that
\* follows one of equal or smaller unit, `at` being the place in UnitOrder
\* of the designator before it and `time` whether a 'T' came before, after
\* which an 'M' is minutes; 0 if there is none
RECURSIVE Offending(_, _, _, _)
Offending(string, i, at, time) ==
    LET Places ==
            {j \in (at + 1)..6 : UnitOrder[j] = string[i] /\ (time /\ string[i] = "M" => j = 5)}
    IN  IF i > Len(string) THEN 0
        ELSE IF string[i] = "T" THEN Offending(string, i + 1, at, TRUE)
        ELSE IF string[i] \notin {"Y", "M", "D", "H", "S"} THEN Offending(string, i + 1, at, time)
        ELSE IF Places = {} THEN i
        ELSE Offending(string, i + 1, CHOOSE j \in Places : \A k \in Places : j <= k, time)

\* the DurationDesignator of a designator that is out of order
Current(designator) ==
    CASE designator = "Y" -> "Years"
      [] designator = "D" -> "Days"
      [] designator = "H" -> "Hours"
      [] designator = "M" -> "Minutes"
      [] designator = "S" -> "Seconds"

\* C19: every accepted string has its designators in strictly decreasing
\* unit order (Y > M > D before the time part, H > M > S within it), and
\* every input in which a designator follows one of equal or smaller unit is
\* rejected with NonDecreasingDesignators whose `current` names that
\* designator.
C19_DesignatorOrder ==
    Components =>
        /\ call.result.tag = "Ok" => Offending(call.x, 2, 0, FALSE) = 0
        /\ Offending(call.x, 2, 0, FALSE) # 0 =>
              call.result = NonDecreasingDesignators(Current(call.x[Offending(call.x, 2, 0, FALSE)]))

\* C19 with the second part for the texts without 'T' in which the designator
\* out of order does not come after the seconds
C19_DesignatorOrderBeforeSeconds ==
    Components =>
        /\ call.result.tag = "Ok" => Offending(call.x, 2, 0, FALSE) = 0
        /\ (/\ Offending(call.x, 2, 0, FALSE) # 0
            /\ \A i \in 1..Offending(call.x, 2, 0, FALSE) : call.x[i] \notin {"T", "S"}) =>
              call.result = NonDecreasingDesignators(Current(call.x[Offending(call.x, 2, 0, FALSE)]))

\* "P1S1M" is rejected for its remainder, not for the minutes out of order
C19_MinutesAfterSeconds ==
    /\ Components
    /\ call.x = <<"P", "1", "S", "1", "M">>
    /\ Offending(call.x, 2, 0, FALSE) = 5
    /\ call.result = ParsingError("UnexpectedRemainder")

\* C20: from_datetime on a uniform scale returns
\* InvalidTimeOfDay{hour, minute, second} with the given inputs exactly when
\* hour >= 24 or minute >= 60 or second >= 60 (second = 60 is never
\* accepted), and otherwise Ok with the time since epoch
\* (date - Scale::EPOCH) days + hours + minutes + seconds, on every date of
\* the 32-bit range.
C20_UniformValidation ==
    (pc # "start" /\ scale \in UniformScales) =>
        IF civil.hour >= 24 \/ civil.minute >= 60 \/ civil.second >= 60
        THEN made = InvalidTimeOfDay(civil.hour, civil.minute, civil.second)
        ELSE made =
               OkTime(IAdd(IMul(ISub(IFromInt(civil.date), IFromInt(Epoch(scale))),
                                SecondsPerDay),
                           IMul(IFromInt(civil.hour * 3600 + civil.minute * 60
                                         + civil.second),
                                Second)),
                      FALSE)

C20_SecondSixtyRejected ==
    /\ pc # "start" /\ scale = "GPST"
    /\ civil = Civil(GpstEpoch, 23, 59, 60)
    /\ made = InvalidTimeOfDay(23, 59, 60)

(***************************************************************************)
(* The exact round trip between TT and TCG.                                *)
(***************************************************************************)
\* the path went from TT to TCG and back, starting within the 64-bit range
\* of attoseconds
TtTcgTt ==
    /\ Len(path) = 3
    /\ path[1].scale = "TT" /\ path[2].scale = "TCG" /\ path[3].scale = "TT"
    /\ ILe([neg |-> TRUE, mag |-> <<808, 775, 854, 36, 372, 223, 9>>], path[1].t)
    /\ ILe(path[1].t, [neg |-> FALSE, mag |-> <<807, 775, 854, 36, 372, 223, 9>>])

\* C24: a TT instant of any 64-bit signed number of attoseconds since the
\* epoch, converted to TCG and back to TT, is exactly the original.
C24_TtTcgExact ==
    TtTcgTt => path[3].t = path[1].t

\* C24 up to one attosecond
C24_TtTcgWithinOne ==
    TtTcgTt => ILe(Distance(path[3].t, path[1].t), IFromInt(1))

\* TT = 854_311_449_997_017_148 as comes back one attosecond earlier
C24_OneAttosecondEarlier ==
    /\ TtTcgTt
    /\ path[1].t = [neg |-> FALSE, mag |-> <<148, 17, 997, 449, 311, 854>>]
    /\ path[3].t = [neg |-> FALSE, mag |-> <<147, 17, 997, 449, 311, 854>>]

(***************************************************************************)
(* The ranges of a decomposition.                                          *)
(***************************************************************************)
\* the time since the epoch of UTC of an instant of a leap-second scale
InUtc == IF scale = "UTC" THEN OkTime(made.t, FALSE)
         ELSE FromTimeScale(scale, "UTC", made.t, TRUE)

\* the instant lies inside an inserted leap second
InsideLeapSecond ==
    /\ scale \in LeapSecondScales
    /\ \E date \in LeapSecondDays :
          /\ ILe(LeapSecondStart(date), InUtc.t)
          /\ ILt(InUtc.t, IAdd(LeapSecondStart(date), Second))

\* the whole days of the instant since the epoch of its scale, counted in
\* the scale's own days of 86400 s
DayOffset ==
    IF scale \in LeapSecondScales
    THEN IDivFloor(ISub(made.t, DurationSeconds(IFromInt(LeapSecondsAtTime(InUtc.t).leap_seconds))),
                   SecondsPerDay)
    ELSE IDivFloor(made.t, SecondsPerDay)

\* C21: into_datetime of an instant of a uniform scale, of UTC or of
\* GLONASST, constructed from any time since epoch (negative ones and ones
\* that are not whole seconds included), returns 0 <= hour < 24,
\* 0 <= minute < 60 and 0 <= second < 60, or (23, 59, 60) and that only when
\* the instant lies inside a leap second; and when the day offset fits the
\* 32-bit day count, the narrowing of hour, minute and second to u8 does
\* not fail.
C21_DecompositionRanges ==
    (pc = "split" /\ civil = None) =>
        /\ split.tag = "Ok" =>
              /\ split.hour \in 0..23 /\ split.minute \in 0..59 /\ split.second \in 0..60
              /\ split.second = 60 =>
                    split.hour = 23 /\ split.minute = 59 /\ InsideLeapSecond
        /\ split = PanicCast => ~IFitsI32(DayOffset)

\* one attosecond before the epoch of TT is 23:59:59 of the day before
C21_BeforeEpochFractional ==
    /\ pc = "split" /\ civil = None /\ scale = "TT"
    /\ made.t = INeg(Atto)
    /\ split = OkDateTime(TtEpoch - 1, 23, 59, 59, FALSE)

(***************************************************************************)
(* The two stages of a construction from a calendar date.                  *)
(***************************************************************************)
\* what from_datetime of the scale makes of the date the calendar answered
SecondStage ==
    FromDateTime(call.x.scale, call.x.answer.date, call.x.hour, call.x.minute,
                 call.x.second, call.x.wrap)

\* C22: from_historic_datetime, from_gregorian_datetime, from_julian_datetime
\* and their fine variants return, when the calendar rejects (year, month,
\* day), the variant of the calendar with the calendar's error unchanged,
\* whatever the time of day; when the date is valid and from_datetime of the
\* scale fails, the variant InvalidDateTime wrapping exactly that error; and
\* Ok only when both stages succeed.
C22_StagedErrors ==
    (pc = "called" /\ call.op = "from_calendar_datetime") =>
        /\ call.x.answer.tag # "Ok" =>
              call.result = [tag |-> "InvalidDate", error |-> call.x.answer]
        /\ (call.x.answer.tag = "Ok" /\ SecondStage.tag \notin {"Ok", "Panic"}) =>
              call.result = [tag |-> "InvalidDateTime", error |-> SecondStage]
        /\ call.result.tag = "Ok" =>
              call.x.answer.tag = "Ok" /\ SecondStage.tag = "Ok"

\* 10 October 1582 at 24:60:61: the date is what is reported
C22_BothStagesFail ==
    /\ pc = "called" /\ call.op = "from_calendar_datetime"
    /\ call.x.answer.tag = "InvalidHistoricDate"
    /\ call.x.hour = 24 /\ call.x.minute = 60 /\ call.x.second = 61
    /\ call.result = [tag |-> "InvalidDate",
                      error |-> [tag |-> "InvalidHistoricDate", year |-> 1582,
                                 month |-> 10, day |-> 10]]

(***************************************************************************)
(* The digits of a fraction.                                               *)
(***************************************************************************)
\* an iterator was constructed, or its construction panicked
Iterated == pc \in {"iterating", "aborted"} /\ call.op \in {"from_signed", "next"}

\* the number of digits that the precision asks for, the limit applied
Asked == IF call.x.precision = {} THEN ABSOLUTE_MAX_DIGITS
         ELSE CHOOSE n \in 0..ABSOLUTE_MAX_DIGITS :
                 \A p \in call.x.precision :
                    n = IF p < ABSOLUTE_MAX_DIGITS THEN p ELSE ABSOLUTE_MAX_DIGITS

\* the calls returned, the digits are below the base and no more than asked
\* for, and once None is returned the digits are all there and None is
\* returned again
Terminating ==
    /\ pc # "aborted"
    /\ Len(call.by) <= Asked
    /\ \A i \in 1..Len(call.by) : call.by[i] < call.x.base
    /\ call.result = [tag |-> "None"] =>
          /\ call.x.precision # {} => Len(call.by) = Asked
          /\ call.x.precision = {} =>
                call.x.iterator.remainder = IZero \/ Len(call.by) = ABSOLUTE_MAX_DIGITS
          /\ \A wrap \in BOOLEAN :
                IteratorNext(call.x.iterator, wrap).item = [tag |-> "None"]

\* C23: for every count, every positive denominator, every base >= 2 and
\* every precision (none, or any number, above 64 included), the iterator
\* over fractional digits returns at most 64 digits and then None on every
\* further call; with precision Some(p) it returns exactly min(p, 64)
\* digits, with precision None it stops as soon as the remainder is zero;
\* and every digit is below the base.
C23_DigitsTerminate ==
    Iterated => Terminating

\* C23 for the counts above i128::MIN whose product with the numerator fits
\* i128, and the denominators whose product with the base fits i128
C23_DigitsTerminateWithoutOverflow ==
    (/\ Iterated
     /\ call.x.count # I128Min
     /\ IFitsI128(IMul(call.x.numerator, call.x.count))
     /\ IFitsI128(IMul(call.x.denominator, IFromInt(call.x.base)))) => Terminating

\* 5 * 10^37 over 10^38 in base 10: the first call of next overflows
C23_FirstDigitOverflows ==
    /\ pc = "aborted" /\ call.op = "next"
    /\ call.x.count = [neg |-> FALSE, mag |-> <<0, 0, 0, 0, 0, 0, 0, 0, 0, 0, 0, 0, 50>>]
    /\ call.x.numerator = IFromInt(1)
    /\ call.x.denominator = [neg |-> FALSE, mag |-> <<0, 0, 0, 0, 0, 0, 0, 0, 0, 0, 0, 0, 100>>]
    /\ call.x.base = 10
    /\ call.by = <<>>
    /\ call.result = PanicOverflow

(***************************************************************************)
(* Constructions that do not abort.                                        *)
(***************************************************************************)
\* C25: from_datetime on TT, TCG, TCB and TDB returns Ok or Err, without
\* overflow and without panic, for every date of the 32-bit day count and
\* every hour, minute and second of 8 bits.
C25_UniformNeverAborts ==
    (pc # "start" /\ civil # None /\ scale \in {"TT", "TCG", "TCB", "TDB"}) =>
        /\ made.tag \in {"Ok", "InvalidTimeOfDay"}
        /\ made.tag = "Ok" =>
              /\ ~made.ovf
              /\ IFitsI128(made.t)
              /\ IFitsI128(DaysIntoDuration(civil.date))
              /\ IFitsI128(ISub(DaysIntoDuration(civil.date),
                                DaysIntoDuration(Epoch(scale))))

\* the last second of the first day of the 32-bit range, on TCB
C25_FirstDay ==
    /\ pc # "start" /\ scale = "TCB"
    /\ civil = Civil(I32Min, 23, 59, 59)
    /\ made.tag = "Ok" /\ made.t.neg

\* the construction on a leap-second scale returned, and no subtraction of
\* days wrapped
Returning ==
    /\ made.tag # "Panic"
    /\ made.tag = "Ok" => ~made.ovf

\* C26: UtcTime::from_datetime and GlonassTime::from_datetime, for every
\* date of the 32-bit day count and every hour, minute and second of 8
\* bits, overflow in none of their 32-bit day subtractions (date - epoch of
\* the scale; date - 1 day for GLONASST hours below 3) and return Ok or a
\* typed error.
C26_LeapSecondNeverOverflows ==
    (pc # "start" /\ civil # None /\ scale \in LeapSecondScales) => Returning

\* C26 for the dates from i32::MIN + epoch of the scale on
C26_LeapSecondNeverOverflowsFromEpochOn ==
    (/\ pc # "start" /\ civil # None /\ scale \in LeapSecondScales
     /\ civil.date >= I32Min + Epoch(scale)) => Returning

\* midnight of the first date of the 32-bit range, on UTC
C26_FirstDatePanics ==
    /\ pc # "start" /\ scale = "UTC"
    /\ civil = Civil(I32Min, 0, 0, 0)
    /\ made = PanicOverflow

(***************************************************************************)
(* The conversions between terrestrial scales compose.                     *)
(***************************************************************************)
\* the conversion from the first scale of the path straight into the last
Direct == FromTimeScale(path[1].scale, Last(path).scale, path[1].t, FALSE)

\* C29: converting an instant x from a terrestrial scale A to B and then to C
\* gives exactly the instant of converting x from A to C directly, and a
\* chain of conversions that ends in A gives x back, whenever no step
\* overflows.
C29_PathIndependent ==
    (Len(path) >= 3 /\ \A i \in 1..Len(path) : ~path[i].ovf) =>
        IF Last(path).scale = path[1].scale
        THEN Last(path).t = path[1].t
        ELSE (Direct.tag = "Ok" /\ ~Direct.ovf) => Last(path).t = Direct.t

\* 2004-05-14T16:43:32 TAI through GLONASST into GPST is 16:43:13
C29_TaiGlonasstGpst ==
    /\ Len(path) = 3
    /\ path[1].scale = "TAI" /\ path[2].scale = "GLONASST" /\ path[3].scale = "GPST"
    /\ civil = Civil(12552, 16, 43, 32)
    /\ path[3].t = FromDateTime("GPST", 12552, 16, 43, 13, FALSE).t

(***************************************************************************)
(* The decomposition with subseconds and the construction from it.         *)
(***************************************************************************)
\* into_fine_datetime was called on an instant of a uniform scale or of UTC
\* whose date is one of the 32-bit day count
FineSplit ==
    /\ pc \in {"split", "rebuilt"}
    /\ call # None /\ call.op \in {"into_fine_datetime", "from_fine_datetime"}
    /\ scale # "GLONASST"
    /\ IFitsI32(IAdd(DayOffset, IFromInt(Epoch(scale))))

\* the parts were returned with subseconds in [0, 1 s), and the instant
\* constructed from them is the one decomposed
Reconstructed ==
    /\ split.tag = "Ok"
    /\ ~split.subseconds.neg /\ ILt(split.subseconds, Second)
    /\ pc = "rebuilt" => call.result = OkTime(made.t, FALSE)

\* C28: for every instant t of a uniform scale or of UTC, negative,
\* fractional or inside a leap second, into_fine_datetime returns subseconds
\* with 0 <= subseconds < 1 s, and from_fine_datetime on the returned date,
\* hour, minute, second and subseconds gives exactly t.
C28_FineRoundTrip ==
    FineSplit => Reconstructed

\* C28 where the days since the epoch of the scale fit the 32-bit day count
C28_FineRoundTripInRange ==
    (FineSplit /\ IFitsI32(DayOffset)) => Reconstructed

\* the first date of the 32-bit range on TT: the decomposition panics
C28_FirstDatePanics ==
    /\ FineSplit /\ scale = "TT"
    /\ made.t = DurationDays(ISub(IFromInt(I32Min), IFromInt(TtEpoch)))
    /\ split = PanicCast

(***************************************************************************)
(* The modified Julian date of an instant and the date of its              *)
(* decomposition.                                                          *)
(***************************************************************************)
\* the decomposition of the instant whose modified Julian date was taken
Decomposed == IntoDateTime(scale, made.t, FALSE)

\* the modified Julian date is that of the date of the decomposition,
\* wherever both exist, and the one the instant was constructed from
Agreeing ==
    /\ pc = "made" => made.tag = "Ok"
    /\ (pc = "dated" /\ Decomposed.tag = "Ok"
          /\ ModifiedJulianDateFromDate(Decomposed.date, FALSE).ok) =>
          /\ call.result.tag = "Ok"
          /\ call.result.mjd = ModifiedJulianDateFromDate(Decomposed.date, FALSE).v
    /\ (pc = "dated" /\ call.by # None) =>
          call.result.tag = "Ok" /\ call.result.mjd = call.by.x

\* a modified Julian date was converted, to or from an instant of a uniform
\* scale
Dated ==
    /\ scale \in UniformScales
    /\ \/ pc = "dated"
       \/ pc = "made" /\ call # None /\ call.op = "from_modified_julian_date"

\* C27: for every instant t of a uniform scale, the instants before the
\* epoch of the scale that are not a whole number of days included,
\* into_modified_julian_date(t) is ModifiedJulianDate::from_date of the date
\* that into_datetime(t) returns; and
\* into_modified_julian_date(from_modified_julian_date(m)) is m, for every m.
C27_MjdAgreesWithDate ==
    Dated => Agreeing

\* C27 for the instants from the epoch of the scale on and the whole days
\* before it, and for the m that are in i32 when counted from the epoch of
\* the scale
C27_MjdAgreesWithDateOnWholeDays ==
    (/\ Dated
     /\ pc = "dated" => ~made.t.neg \/ IRem(made.t, SecondsPerDay) = IZero
     /\ pc = "made" => ~SubOverflows(call.x, Epoch(scale) + MODIFIED_JULIAN_DATE_UNIX_EPOCH))
        => Agreeing

\* one attosecond before the epoch of TT, 1977-01-01: the date is
\* 1976-12-31, MJD 43143, the modified Julian date returned is 43144
C27_DayBeforeEpoch ==
    /\ pc = "dated" /\ scale = "TT"
    /\ made.t = INeg(Atto)
    /\ Decomposed.tag = "Ok" /\ Decomposed.date = TtEpoch - 1
    /\ ModifiedJulianDateFromDate(Decomposed.date, FALSE).v = 43143
    /\ call.result.tag = "Ok" /\ call.result.mjd = 43144

(***************************************************************************)
(* The decimal point of a written Duration or instant.                     *)
(***************************************************************************)
\* a Duration or an instant was written
Written == pc \in {"called", "parsed"} /\ call.op \in {"format", "format_time_point"}

\* every decimal point of the text is followed by a digit
PointThenDigit ==
    \A i \in 1..Len(call.result) :
       call.result[i] = "." =>
          i < Len(call.result) /\ \E v \in 1..10 : call.result[i + 1] = DigitChars[v]

\* C30: for every instant and every Duration and every precision of the
\* formatter (none, 0, or positive), a decimal point in the Display output
\* is followed by at least one fractional digit.
C30_NoDanglingPoint ==
    Written => PointThenDigit

\* C30 for no precision and for the positive ones
C30_NoDanglingPointButZero ==
    (Written /\ call.by # {0}) => PointThenDigit

\* 40.5 s after the epoch of TT with precision 0: "1977-01-01T00:00:40. TT"
C30_PointBeforeSpace ==
    /\ Written /\ call.op = "format_time_point"
    /\ call.x = [scale |-> "TT", t |-> DurationMilliseconds(IFromInt(40500))]
    /\ call.by = {0}
    /\ call.result = <<"1", "9", "7", "7", "-", "0", "1", "-", "0", "1", "T", "0", "0", ":",
                       "0", "0", ":", "4", "0", ".", " ", "TT">>
====
